---------------------------- MODULE Spec2Model ----------------------------
(***************************************************************************)
(* A model of the memory-consistency core of starkyx/curta: symbolic       *)
(* pointers (RawPointer), the U32 value encoding (MemoryValue::compress),  *)
(* the pointer accumulation step and the log-derivative lookup argument.   *)
(*                                                                         *)
(* Field elements are elements of the Goldilocks field, order              *)
(* p = 2^64 - 2^32 + 1, the field the repository's test instantiates       *)
(* (register.rs: type Field = GoldilocksField).  A field element is kept   *)
(* as its canonical representative, written as 8 little-endian bytes, so   *)
(* that 64-bit quantities keep their width.  An extension element is a     *)
(* triple of field elements.  An Option is a sequence of length 0 or 1.    *)
(***************************************************************************)
EXTENDS Integers, Sequences, FiniteSets, TLC

VARIABLES
    trace,        \* pointer spec: trace[r] = value of the element register on row r
    challenges,   \* pointer spec: challenges[c] = value of challenge register c
    ptr,          \* pointer spec: Option of the RawPointer built last
    row,          \* pointer spec: the row the evaluation window stands on
    address,      \* pointer spec: Option of the result of eval of ptr on row
    key,          \* pointer spec: Option of the result of read of ptr on row
    prev,         \* pointer spec: Option of [ptr, row, address, key], the last access
                  \*   before this one on which both eval and read were called
    bytes,        \* encoding spec: the four little-endian bytes of the U32 register
    time,         \* encoding spec: the value of the timestamp, a field element
    encoding,     \* encoding spec: Option of the value of acc_expression on the row
    lkConstraint, \* lookup: Option of the LookupChipConstraint of the table
    lkTrace,      \* lookup: the rows of the trace, each with its looking digests
                  \*   and its looked-up (digest, multiplicity) pairs
    lkRow,        \* lookup: the number of rows accumulated so far
    lkSum,        \* lookup: lkSum[b] = the running sum at the challenge b
    lkSide,       \* lookup: lkSide[b] = the side constraints of the reciprocal
                  \*   registers held on every row so far at the challenge b
    lkVerdict,    \* lookup: Option of the outcome of the global constraint,
                  \*   a function of the challenge
    lkInverses,   \* lookup: the inverses the trace generation has at hand for
                  \*   the reciprocal registers, by the difference beta - entry
    memory,       \* memory: the host-side map from a key to its current entry
    stores,       \* memory: the stores issued, in order (the looked-up side)
    loads,        \* memory: the loads issued, in order (the looking side)
    builder,      \* accumulation: the AirBuilder, with the number of registers it
                  \*   has allocated and the accumulators registered with it
    calls         \* accumulation: the calls made, in order, each with its
                  \*   arguments and the digest register it returned

VARIABLES
    order,        \* construction: the order of the field the AIR is instantiated with
    built,        \* construction: Option of the RawPointer returned by RawPointer::new
    outcome       \* construction: Option of what the conversion of the constant
                  \*   shift gave when the pointer built was evaluated or read

VARIABLES
    regA,         \* limbs: Option of the byte array register a allocated
    regLimbs,     \* limbs: Option of the limb size asked of a and of what
                  \*   to_le_limbs gave
    regB,         \* limbs: Option of the size asked of from_limbs and of what
                  \*   it gave for the limbs of a
    byteTrace     \* limbs: byteTrace[r][c] = the byte in column c on row r

VARIABLES
    blakeRow,     \* BLAKE2B: the index of the row of the trace being generated
    clk,          \* BLAKE2B: the clock register on the row
    compress_id,  \* BLAKE2B: the register compress_id on the row
    is_compress_initialize,   \* BLAKE2B: the bit register of that name on the row
    is_compress_first_row,    \* BLAKE2B: the bit register of that name on the row
    mix_index,    \* BLAKE2B: the register mix_index on the row
    compress_iteration,       \* BLAKE2B: the register compress_iteration on the row
    at_first_compress,        \* BLAKE2B: the bit register of that name on the row
    end_bits,     \* BLAKE2B: the public end bit of every compress, 1 on the
                  \*   last compress of a message
    m_loads,      \* BLAKE2B: the loads from the memory m issued on the rows so
                  \*   far, a count for every (index, timestamp)
    h_loads       \* BLAKE2B: the loads from the memory h issued on the rows so
                  \*   far, a count for every (index, timestamp)

VARIABLES
    mixArgs,      \* mix: the six 64-bit words (v_a, v_b, v_c, v_d, x, y) of a mix
    mixAir,       \* mix: Option of the four registers blake2b_mix returns for them
    mixPure       \* mix: Option of v[a], v[b], v[c], v[d] after the pure mix

ptrVars == <<trace, challenges, ptr, row, address, key, prev>>
encVars == <<bytes, time, encoding>>
lkVars == <<lkConstraint, lkTrace, lkRow, lkSum, lkSide, lkVerdict, lkInverses>>
memVars == <<memory, stores, loads>>
accVars == <<builder, calls>>
ctorVars == <<order, built, outcome>>
limbVars == <<regA, regLimbs, regB, byteTrace>>
blakeVars == <<blakeRow, clk, compress_id, is_compress_initialize, is_compress_first_row,
              mix_index, compress_iteration, at_first_compress, end_bits, m_loads, h_loads>>
mixVars == <<mixArgs, mixAir, mixPure>>
vars == <<ptrVars, encVars, lkVars, memVars, accVars, ctorVars, limbVars, blakeVars, mixVars>>

\* the variables outside each component, which its steps leave alone
outsidePointer == <<encVars, lkVars, memVars, accVars, ctorVars, limbVars, blakeVars, mixVars>>
outsideEncode == <<ptrVars, lkVars, memVars, accVars, ctorVars, limbVars, blakeVars, mixVars>>
outsideLookup == <<ptrVars, encVars, memVars, accVars, ctorVars, limbVars, blakeVars, mixVars>>
outsideMemory == <<ptrVars, encVars, accVars, ctorVars, limbVars, blakeVars, mixVars>>
outsideAccumulate == <<encVars, lkVars, memVars, ctorVars, limbVars, blakeVars, mixVars>>
outsideConstruct == <<ptrVars, encVars, lkVars, memVars, accVars, limbVars, blakeVars, mixVars>>
outsideLimbs == <<ptrVars, encVars, lkVars, memVars, accVars, ctorVars, blakeVars, mixVars>>
outsideBlake == <<ptrVars, encVars, lkVars, memVars, accVars, ctorVars, limbVars, mixVars>>
outsideMix == <<ptrVars, encVars, lkVars, memVars, accVars, ctorVars, limbVars, blakeVars>>

---------------------------------------------------------------------------
(* Bounds of the model.                                                    *)

NumRows == 2          \* rows of the trace

---------------------------------------------------------------------------
(* Goldilocks field arithmetic on 8-byte little-endian representatives.    *)

Base == 256
NumLimbs == 8

\* p = 2^64 - 2^32 + 1 = 0xFFFFFFFF00000001
P == <<1, 0, 0, 0, 255, 255, 255, 255>>
ZERO == <<0, 0, 0, 0, 0, 0, 0, 0>>
ONE == <<1, 0, 0, 0, 0, 0, 0, 0>>

RECURSIVE Zeros(_)
Zeros(n) == IF n <= 0 THEN <<>> ELSE <<0>> \o Zeros(n - 1)

Pad(a, n) == a \o Zeros(n - Len(a))

RECURSIVE GeFrom(_, _, _)
GeFrom(a, b, i) ==
    IF i = 0 THEN TRUE
    ELSE IF a[i] > b[i] THEN TRUE
    ELSE IF a[i] < b[i] THEN FALSE
    ELSE GeFrom(a, b, i - 1)

\* a >= b, as natural numbers
Ge(a, b) ==
    LET n == IF Len(a) > Len(b) THEN Len(a) ELSE Len(b)
    IN  GeFrom(Pad(a, n), Pad(b, n), n)

RECURSIVE AddFrom(_, _, _, _, _)
AddFrom(a, b, i, c, acc) ==
    IF i > Len(a) THEN Append(acc, c)
    ELSE AddFrom(a, b, i + 1, (a[i] + b[i] + c) \div Base,
                 Append(acc, (a[i] + b[i] + c) % Base))

\* a + b, as natural numbers (one limb longer than the longer operand)
NAdd(a, b) ==
    LET n == IF Len(a) > Len(b) THEN Len(a) ELSE Len(b)
    IN  AddFrom(Pad(a, n), Pad(b, n), 1, 0, <<>>)

RECURSIVE SubFrom(_, _, _, _, _)
SubFrom(a, b, i, br, acc) ==
    IF i > Len(a) THEN acc
    ELSE LET t == a[i] - b[i] - br
         IN  IF t < 0 THEN SubFrom(a, b, i + 1, 1, Append(acc, t + Base))
             ELSE SubFrom(a, b, i + 1, 0, Append(acc, t))

\* a - b, as natural numbers, for a >= b
NSub(a, b) == SubFrom(a, Pad(b, Len(a)), 1, 0, <<>>)

\* a natural number of any length modulo p, by repeated subtraction
RECURSIVE ModP(_)
ModP(a) == IF Ge(a, P) THEN ModP(NSub(a, P)) ELSE SubSeq(a, 1, NumLimbs)

\* a + b for 8-limb a and b: the 9 limbs of the sum
Add8(a, b) == AddFrom(a, b, 1, 0, <<>>)

RECURSIVE Sub8From(_, _, _, _, _)
Sub8From(a, b, i, br, acc) ==
    IF i > NumLimbs THEN Append(acc, 1 - br)
    ELSE IF a[i] - b[i] - br < 0
         THEN Sub8From(a, b, i + 1, 1, Append(acc, a[i] - b[i] - br + Base))
         ELSE Sub8From(a, b, i + 1, 0, Append(acc, a[i] - b[i] - br))

\* a - b modulo 2^64 for 8-limb a and b, followed by a ninth entry that is
\* 1 when a >= b and 0 when the subtraction borrowed
Sub8(a, b) == Sub8From(a, b, 1, 0, <<>>)

Low8(x) == SubSeq(x, 1, NumLimbs)

\* a, or the difference d = a - p when that subtraction did not borrow
CanonicalSelect(a, d) == IF d[9] = 1 THEN Low8(d) ELSE a

\* the canonical representative of an 8-limb natural below 2 p
Canonical(a) == CanonicalSelect(a, Sub8(a, P))

\* the 9-limb sum s of two canonical elements, or d = s - p when s >= p
AddSelect(s, d) == IF s[9] = 1 \/ d[9] = 1 THEN Low8(d) ELSE Low8(s)

AddReduce(s) == AddSelect(s, Sub8(Low8(s), P))

\* a + b in the field, for canonical a and b
FAdd(a, b) ==
    IF a = ZERO THEN b
    ELSE IF b = ZERO THEN a
    ELSE AddReduce(Add8(a, b))

\* the difference d of two canonical elements, plus p when it borrowed
SubReduce(d) == IF d[9] = 1 THEN Low8(d) ELSE Low8(Add8(Low8(d), P))

\* a - b in the field, for canonical a and b
FSub(a, b) ==
    IF b = ZERO THEN a
    ELSE IF a = b THEN ZERO
    ELSE SubReduce(Sub8(a, b))

FNeg(a) == FSub(ZERO, a)

\* the sum of the products a[i] * b[k + 1 - i] of weight Base^(k - 1), from
\* the index i on
RECURSIVE Column(_, _, _, _)
Column(a, b, k, i) ==
    IF i > NumLimbs \/ i > k THEN 0
    ELSE (IF k + 1 - i <= NumLimbs THEN a[i] * b[k + 1 - i] ELSE 0)
            + Column(a, b, k, i + 1)

RECURSIVE MulFrom(_, _, _, _, _)
MulFrom(a, b, k, t, acc) ==
    IF k = 2 * NumLimbs THEN Append(acc, t)
    ELSE MulFrom(a, b, k + 1, t \div Base + Column(a, b, k + 1, 1), Append(acc, t % Base))

\* a * b, as natural numbers: the 16-limb schoolbook product
NMul(a, b) == MulFrom(a, b, 1, Column(a, b, 1, 1), <<>>)

\* A 128-bit natural lo + 2^64 * mid + 2^96 * hi reduced modulo p, using
\* 2^64 = 2^32 - 1 and 2^96 = -1 (mod p).
ReduceTerms(lo, mid, hi) ==
    FSub(FSub(FAdd(lo, <<0, 0, 0, 0>> \o mid), mid \o <<0, 0, 0, 0>>),
         hi \o <<0, 0, 0, 0>>)

Reduce128(x) ==
    ReduceTerms(Canonical(SubSeq(x, 1, 8)), SubSeq(x, 9, 12), SubSeq(x, 13, 16))

FMul(a, b) ==
    IF a = ZERO \/ b = ZERO THEN ZERO
    ELSE IF a = ONE THEN b
    ELSE IF b = ONE THEN a
    ELSE Reduce128(NMul(a, b))

\* x^(2^n), by n successive squarings
RECURSIVE SqN(_, _)
SqN(x, n) ==
    IF n = 0 THEN x
    ELSE IF x = ZERO THEN ZERO
    ELSE SqN(FMul(x, x), n - 1)

\* x^(2^n) * y
SqMul(x, n, y) == FMul(SqN(x, n), y)

\* The steps of the addition chain of Field::inverse: tN is a to the power
\* 2^N - 1.
Inv31(a, t31) == SqMul(SqMul(t31, 32, t31), 1, a)

Inv24(a, t6, t24) == Inv31(a, SqMul(SqMul(t24, 6, t6), 1, a))

Inv12(a, t6, t12) == Inv24(a, t6, SqMul(t12, 12, t12))

Inv6(a, t6) == Inv12(a, t6, SqMul(t6, 6, t6))

Inv3(a, t3) == Inv6(a, SqMul(t3, 3, t3))

\* Field::inverse: a^(p - 2), with p - 2 = 0xFFFFFFFEFFFFFFFF, by the
\* addition chain on the runs of ones of the exponent; 0 for a = 0, which
\* has no inverse
FInv(a) ==
    IF a = ZERO THEN ZERO
    ELSE Inv3(a, SqMul(SqMul(a, 1, a), 1, a))

\* Field::from_canonical_u32: a u32, written as 4 little-endian bytes,
\* becomes the field element of the same value.
from_canonical_u32(c) == c \o <<0, 0, 0, 0>>

\* Field::from_canonical_u64: a u64, written as 8 little-endian bytes, taken
\* as the canonical representative.
from_canonical_u64(c) == c

\* Field::from_canonical_u8
from_canonical_u8(b) == <<b, 0, 0, 0, 0, 0, 0, 0>>

---------------------------------------------------------------------------
(* The cubic extension: triples of field elements.                         *)

CZERO == <<ZERO, ZERO, ZERO>>

\* CubicParser::element_from_base_field
element_from_base_field(e) == <<e, ZERO, ZERO>>

\* CubicParser::add_extension
add_extension(a, b) == <<FAdd(a[1], b[1]), FAdd(a[2], b[2]), FAdd(a[3], b[3])>>

CSub(a, b) == <<FSub(a[1], b[1]), FSub(a[2], b[2]), FSub(a[3], b[3])>>

CONE == <<ONE, ZERO, ZERO>>

\* CubicParser::mul_extension: the product in F[u] / (u^3 - u + 1)
mul_extension(x, y) ==
    <<FSub(FSub(FMul(x[1], y[1]), FMul(x[2], y[3])), FMul(x[3], y[2])),
      FSub(FAdd(FAdd(FAdd(FMul(x[1], y[2]), FMul(x[2], y[1])), FMul(x[2], y[3])),
                FMul(x[3], y[2])),
           FMul(x[3], y[3])),
      FAdd(FAdd(FAdd(FMul(x[1], y[3]), FMul(x[2], y[2])), FMul(x[3], y[1])),
           FMul(x[3], y[3]))>>

\* the product of an extension element by a field element
scalar_mul_extension(x, s) == <<FMul(x[1], s), FMul(x[2], s), FMul(x[3], s)>>

\* the cofactors k1, k2, k3 divided by the determinant
CofactorsByDet(a, b, c, k1, k2, k3) ==
    scalar_mul_extension(<<k1, k2, k3>>,
        FInv(FSub(FSub(FMul(a, k1), FMul(c, k2)), FMul(b, k3))))

Cofactors(a, b, c, ac, bc) ==
    CofactorsByDet(a, b, c,
        FSub(FMul(ac, ac), FMul(bc, b)),
        FSub(FMul(bc, c), FMul(b, ac)),
        FSub(FMul(b, b), FMul(ac, c)))

\* the inverse in the extension, by the cofactors of the matrix of the
\* multiplication by x = a + b u + c u^2; (0, 0, 0) for x = 0
inverse_extension(x) ==
    Cofactors(x[1], x[2], x[3], FAdd(x[1], x[3]), FSub(x[2], x[3]))

\* AirParser::add_const
add_const(e, c) == FAdd(e, c)

\* AirParser::constant
constant(c) == c

---------------------------------------------------------------------------
(* Inputs of the pointer specification.                                    *)

Rows == 0..(NumRows - 1)

\* values the element register may hold on a row: 0, 1, p - 1
ElementValues == {ZERO, ONE, FSub(ZERO, ONE)}

\* constant shifts (u32, 4 little-endian bytes): 1 and u32::MAX
ConstantShifts == {<<1, 0, 0, 0>>, <<255, 255, 255, 255>>}

\* challenge registers, and the element register usable as a shift
ChallengeRegisters == {0, 1}
ElementRegisters == {0}

Traces == [Rows -> ElementValues]

ChallengeValues ==
    [c \in ChallengeRegisters |->
        <<from_canonical_u8(7 + c), from_canonical_u8(11), FSub(ZERO, from_canonical_u8(3 + c))>>]

None == <<>>
Some(x) == <<x>>
IsSome(o) == Len(o) = 1
Unwrap(o) == o[1]

\* the parts of the state a specification does not use stay as constructed
IdlePointer ==
    /\ trace = [r \in Rows |-> ONE]
    /\ challenges = ChallengeValues
    /\ ptr = None
    /\ row = 0
    /\ address = None
    /\ key = None
    /\ prev = None

IdleEncode == bytes = <<0, 0, 0, 0>> /\ time = ZERO /\ encoding = None

IdleLookup ==
    /\ lkConstraint = None
    /\ lkTrace = <<>>
    /\ lkRow = 0
    /\ lkSum = <<>>
    /\ lkSide = <<>>
    /\ lkVerdict = None
    /\ lkInverses = <<>>

IdleMemory == memory = <<>> /\ stores = <<>> /\ loads = <<>>

\* AirBuilder::new: nothing allocated, nothing registered
AirBuilder_new == [next |-> 0, accumulators |-> <<>>]

IdleAccumulate == builder = AirBuilder_new /\ calls = <<>>

\* no pointer constructed under a chosen field
IdleConstruct == order = P /\ built = None /\ outcome = None

\* no byte array register allocated
IdleLimbs == regA = None /\ regLimbs = None /\ regB = None /\ byteTrace = <<>>

\* the BLAKE2B trace on its first row
IdleBlake ==
    /\ blakeRow = 0
    /\ clk = ZERO
    /\ compress_id = ZERO
    /\ is_compress_initialize = ONE
    /\ is_compress_first_row = ONE
    /\ mix_index = ZERO
    /\ compress_iteration = ZERO
    /\ at_first_compress = ONE
    /\ end_bits = <<>>
    /\ m_loads = <<>>
    /\ h_loads = <<>>

\* no mix evaluated
IdleMix == mixArgs = <<>> /\ mixAir = None /\ mixPure = None

---------------------------------------------------------------------------
(* RawPointer (chip/memory/pointer/raw.rs).                                *)

\* RawPointer::new
RawPointer_new(challenge, element_shift, constant_shift) ==
    [challenge |-> challenge,
     element_shift |-> element_shift,
     constant_shift |-> constant_shift]

\* RawPointer::from_challenge
RawPointer_from_challenge(challenge) ==
    [challenge |-> challenge, element_shift |-> None, constant_shift |-> None]

\* Register::eval of an element register on a row; TraceWriter::read
\* the register read as the index of the row instead of the value on it
ReadElement_RowIndex(e, row_index) == from_canonical_u8(row_index)

ReadElement(e, row_index) == trace[row_index]

\* EvalShift with the constant dropped when both shifts are present
EvalShift_DropsConstant(self, row_index) ==
    CASE IsSome(self.element_shift) ->
            Some(ReadElement(Unwrap(self.element_shift), row_index))
      [] ~IsSome(self.element_shift) /\ IsSome(self.constant_shift) ->
            Some(constant(from_canonical_u32(Unwrap(self.constant_shift))))
      [] OTHER -> None

\* EvalShift with the element register left out
EvalShift_ConstantOnly(self, row_index) ==
    IF IsSome(self.constant_shift)
    THEN Some(constant(from_canonical_u32(Unwrap(self.constant_shift))))
    ELSE None

\* the shift of RawPointer::eval, an Option of a field element
EvalShift(self, row_index) ==
    CASE IsSome(self.element_shift) /\ ~IsSome(self.constant_shift) ->
            Some(ReadElement(Unwrap(self.element_shift), row_index))
      [] ~IsSome(self.element_shift) /\ IsSome(self.constant_shift) ->
            Some(constant(from_canonical_u32(Unwrap(self.constant_shift))))
      [] IsSome(self.element_shift) /\ IsSome(self.constant_shift) ->
            Some(add_const(ReadElement(Unwrap(self.element_shift), row_index),
                           from_canonical_u32(Unwrap(self.constant_shift))))
      [] OTHER -> None

\* RawPointer::eval adding the shift only when it comes from a register
RawPointer_eval_ElementOnly(self, row_index) ==
    LET challenge == challenges[self.challenge]
        shift == EvalShift(self, row_index)
    IN  IF IsSome(self.element_shift)
        THEN add_extension(challenge, element_from_base_field(Unwrap(shift)))
        ELSE challenge

\* RawPointer::eval
RawPointer_eval(self, row_index) ==
    LET challenge == challenges[self.challenge]
        shift == EvalShift(self, row_index)
    IN  IF IsSome(shift)
        THEN add_extension(challenge, element_from_base_field(Unwrap(shift)))
        ELSE challenge

\* RawPointerKey::new
RawPointerKey_new(challenge, shift) == [challenge |-> challenge, shift |-> shift]

\* RawPointer::read taking the constant only when there is no register
RawPointer_read_ElementOrConstant(self, row_index) ==
    LET shift ==
            IF IsSome(self.element_shift)
            THEN ReadElement(Unwrap(self.element_shift), row_index)
            ELSE IF IsSome(self.constant_shift)
            THEN from_canonical_u32(Unwrap(self.constant_shift))
            ELSE ZERO
    IN  RawPointerKey_new(self.challenge, shift)

\* RawPointer::read
RawPointer_read(self, row_index) ==
    LET element_shift ==
            IF IsSome(self.element_shift)
            THEN ReadElement(Unwrap(self.element_shift), row_index)
            ELSE ZERO
        constant_shift ==
            IF IsSome(self.constant_shift)
            THEN from_canonical_u32(Unwrap(self.constant_shift))
            ELSE ZERO
        shift == FAdd(element_shift, constant_shift)
    IN  RawPointerKey_new(self.challenge, shift)

---------------------------------------------------------------------------
(* The pointer specification: a pointer is built, then evaluated (eval, by *)
(* the constraint evaluation) and read (read, by the trace generation) on  *)
(* the rows of the trace.                                                  *)

InitPointer ==
    /\ trace \in Traces
    /\ challenges = ChallengeValues
    /\ ptr = None
    /\ row = 0
    /\ address = None
    /\ key = None
    /\ prev = None
    /\ IdleEncode
    /\ IdleLookup
    /\ IdleMemory
    /\ IdleAccumulate
    /\ IdleConstruct
    /\ IdleLimbs
    /\ IdleBlake
    /\ IdleMix

\* the access that is left behind when the window moves or the pointer changes
Saved ==
    IF IsSome(ptr) /\ IsSome(address) /\ IsSome(key)
    THEN Some([ptr |-> Unwrap(ptr), row |-> row,
               address |-> Unwrap(address), key |-> Unwrap(key)])
    ELSE prev

\* a pointer is built by RawPointer::new
New ==
    \E c \in ChallengeRegisters :
    \E e \in {None} \cup {Some(r) : r \in ElementRegisters} :
    \E k \in {None} \cup {Some(s) : s \in ConstantShifts} :
        /\ ptr' = Some(RawPointer_new(c, e, k))
        /\ row' = 0
        /\ address' = None
        /\ key' = None
        /\ prev' = Saved
        /\ UNCHANGED <<trace, challenges, outsidePointer>>

\* a bare pointer is built by RawPointer::from_challenge
FromChallenge ==
    \E c \in ChallengeRegisters :
        /\ ptr' = Some(RawPointer_from_challenge(c))
        /\ row' = 0
        /\ address' = None
        /\ key' = None
        /\ prev' = Saved
        /\ UNCHANGED <<trace, challenges, outsidePointer>>

\* the constraint evaluation calls eval on the current row
Eval ==
    /\ IsSome(ptr)
    /\ address' = Some(RawPointer_eval(Unwrap(ptr), row))
    /\ UNCHANGED <<trace, challenges, ptr, row, key, prev, outsidePointer>>

\* the trace generation calls read on the current row
Read ==
    /\ IsSome(ptr)
    /\ key' = Some(RawPointer_read(Unwrap(ptr), row))
    /\ UNCHANGED <<trace, challenges, ptr, row, address, prev, outsidePointer>>

\* the window moves to the next row
NextRow ==
    /\ IsSome(ptr)
    /\ row + 1 < NumRows
    /\ row' = row + 1
    /\ address' = None
    /\ key' = None
    /\ prev' = Saved
    /\ UNCHANGED <<trace, challenges, ptr, outsidePointer>>

NextPointer == New \/ FromChallenge \/ Eval \/ Read \/ NextRow

SpecPointer == InitPointer /\ [][NextPointer]_vars

---------------------------------------------------------------------------
(* Claims about RawPointer.                                                *)

HasElement(p) == IsSome(p.element_shift)
HasConstant(p) == IsSome(p.constant_shift)

\* the value of the pointer's element register on row r, 0 when absent
ElementOf(p, r) == IF HasElement(p) THEN trace[r] ELSE ZERO

\* the pointer's constant as a field element, 0 when absent
ConstantOf(p) == IF HasConstant(p) THEN Unwrap(p.constant_shift) \o <<0, 0, 0, 0>> ELSE ZERO

\* element_shift + constant_shift modulo p, an absent shift counting as 0
LogicalShift(p, r) == ModP(NAdd(ElementOf(p, r), ConstantOf(p)))

\* challenge + (s, 0, 0): only the constant coordinate changes
Shifted(c, s) == <<ModP(NAdd(c[1], s)), c[2], c[3]>>

\* C1: eval returns challenge + embed(shift), shift being element_shift +
\* constant_shift when both are present and the present one otherwise, embed
\* putting it in the constant coordinate; with no shift eval returns the
\* challenge unchanged.
C1_EvalAddress ==
    (IsSome(ptr) /\ IsSome(address)) =>
        LET p == Unwrap(ptr)
            c == challenges[p.challenge]
        IN  IF ~HasElement(p) /\ ~HasConstant(p)
            THEN Unwrap(address) = c
            ELSE Unwrap(address) =
                    Shifted(c, IF HasElement(p) /\ HasConstant(p)
                               THEN LogicalShift(p, row)
                               ELSE IF HasElement(p) THEN trace[row]
                               ELSE ConstantOf(p))

\* C1 witness: eval has run on a pointer with both shifts whose sum wraps
\* around the field order (p - 1 + u32::MAX), and on the result the constant
\* coordinate differs from the challenge's.
C1_Witness ==
    /\ IsSome(ptr) /\ IsSome(address)
    /\ HasElement(Unwrap(ptr)) /\ HasConstant(Unwrap(ptr))
    /\ trace[row] = FSub(ZERO, ONE)
    /\ Unwrap(Unwrap(ptr).constant_shift) = <<255, 255, 255, 255>>
    /\ Unwrap(address)[1] # challenges[Unwrap(ptr).challenge][1]

\* C2: two pointers with the same challenge whose element_shift value +
\* constant_shift (absent = 0) is the same field element have equal keys,
\* however the shift is expressed.
C2_SameAddressSameKey ==
    (IsSome(ptr) /\ IsSome(key) /\ IsSome(prev)) =>
        LET p == Unwrap(ptr)
            q == Unwrap(prev)
        IN  (p.challenge = q.ptr.challenge
             /\ LogicalShift(p, row) = LogicalShift(q.ptr, q.row))
            => Unwrap(key) = q.key

\* C2 witness: a bare pointer and a pointer with both shifts (element p - 1,
\* constant 1, sum 0) on the same challenge have been read to the same key.
C2_Witness ==
    /\ IsSome(ptr) /\ IsSome(key) /\ IsSome(prev)
    /\ Unwrap(ptr).challenge = Unwrap(prev).ptr.challenge
    /\ HasElement(Unwrap(ptr)) /\ HasConstant(Unwrap(ptr))
    /\ ~HasElement(Unwrap(prev).ptr) /\ ~HasConstant(Unwrap(prev).ptr)
    /\ Unwrap(key) = Unwrap(prev).key

\* C3: the address eval computes on a row is challenge + embed(key.shift)
\* for the key read returns on that row, and two pointers with the same
\* challenge have equal keys exactly when their addresses are equal.
C3_ReadMirrorsEval ==
    (IsSome(ptr) /\ IsSome(address) /\ IsSome(key)) =>
        /\ Unwrap(address) =
                Shifted(challenges[Unwrap(key).challenge], Unwrap(key).shift)
        /\ (IsSome(prev) /\ Unwrap(prev).ptr.challenge = Unwrap(ptr).challenge)
                => ((Unwrap(key) = Unwrap(prev).key)
                        <=> (Unwrap(address) = Unwrap(prev).address))

\* C3 witness: eval and read have both run on two differently built pointers
\* of one challenge, one of them shifted by a register, and the keys differ.
C3_Witness ==
    /\ IsSome(ptr) /\ IsSome(address) /\ IsSome(key) /\ IsSome(prev)
    /\ Unwrap(prev).ptr.challenge = Unwrap(ptr).challenge
    /\ Unwrap(prev).ptr # Unwrap(ptr)
    /\ HasElement(Unwrap(ptr))
    /\ Unwrap(key) # Unwrap(prev).key

---------------------------------------------------------------------------
(* The value encoding of a U32 register (chip/uint/register.rs).           *)

\* 1 << k as an unsigned integer of n bytes, little-endian (k < 8 * n)
OneShl(k, n) == [i \in 1..n |-> IF i = (k \div 8) + 1 THEN 2 ^ (k % 8) ELSE 0]

\* the weight of byte i with the shift count i instead of 8 * i
ByteWeight_ShiftByIndex(i) == from_canonical_u32(OneShl(i, 4))

\* two_i: the weight of byte i, from_canonical_u32(1 << (8 * i))
ByteWeight(i) == from_canonical_u32(OneShl(8 * i, 4))

\* the weight of the timestamp as 1 << 24
TimeWeight_Shift24 == from_canonical_u64(OneShl(24, 8))

\* two_32: the weight of the timestamp, from_canonical_u64(1 << 32)
TimeWeight == from_canonical_u64(OneShl(32, 8))

\* the loop of compress over bytes.iter().enumerate(), from index i on
RECURSIVE FoldBytes(_, _, _)
FoldBytes(b, i, acc) ==
    IF i >= Len(b) THEN acc
    ELSE FoldBytes(b, i + 1,
                   FAdd(acc, FMul(ByteWeight(i), from_canonical_u8(b[i + 1]))))

\* the encoding with the timestamp left out
U32Register_compress_DropsTime(b, t) == FoldBytes(b, 0, ZERO)

\* the value of acc_expression that MemoryValue::compress of U32Register
\* hands to ptr.accumulate, for the register bytes b and the timestamp t
U32Register_compress(b, t) == FAdd(FoldBytes(b, 0, ZERO), FMul(TimeWeight, t))

---------------------------------------------------------------------------
(* The encoding specification: a register value and a timestamp are        *)
(* drawn, and compress encodes them.                                       *)

\* values of one byte register
ByteValues == {0, 1, 42, 255}

\* timestamps: 0, 1, 2^32 - 2, 2^32 - 1, 2^32, p - 1
TimeValues ==
    {ZERO, ONE,
     <<254, 255, 255, 255, 0, 0, 0, 0>>, <<255, 255, 255, 255, 0, 0, 0, 0>>,
     <<0, 0, 0, 0, 1, 0, 0, 0>>, FSub(ZERO, ONE)}

InitEncode ==
    /\ bytes \in [1..4 -> ByteValues]
    /\ time \in TimeValues
    /\ encoding = None
    /\ IdlePointer
    /\ IdleLookup
    /\ IdleMemory
    /\ IdleAccumulate
    /\ IdleConstruct
    /\ IdleLimbs
    /\ IdleBlake
    /\ IdleMix

\* MemoryValue::compress builds the encoding of (bytes, time)
Compress ==
    /\ encoding = None
    /\ encoding' = Some(U32Register_compress(bytes, time))
    /\ UNCHANGED <<bytes, time, outsideEncode>>

NextEncode == Compress

SpecEncode == InitEncode /\ [][NextEncode]_vars

---------------------------------------------------------------------------
(* Claims about the value encoding.                                        *)

\* the timestamp fits 32 bits
IsU32(t) == SubSeq(t, 5, 8) = <<0, 0, 0, 0>>

\* value + 2^32 * timestamp as a natural number
EncodingNat(b, t) == NAdd(b, <<0, 0, 0, 0>> \o t)

\* value + 2^32 * timestamp is below the field order
InRange(b, t) == ~Ge(EncodingNat(b, t), P)

\* C4: the encoding is sum_i byte_i * 2^(8 i) + t * 2^32 in the field; the
\* timestamp is weighted by 2^32, so that for a 32-bit timestamp the low
\* four bytes of the encoding are the value and the high four the timestamp.
C4_EncodingWeights ==
    IsSome(encoding) =>
        /\ Unwrap(encoding) = Reduce128(Pad(EncodingNat(bytes, time), 16))
        /\ (IsU32(time) /\ InRange(bytes, time))
                => Unwrap(encoding) = bytes \o SubSeq(time, 1, 4)

\* C4 witness: a register with all four bytes non-zero has been encoded
\* with a non-zero 32-bit timestamp.
C4_Witness ==
    /\ IsSome(encoding)
    /\ \A i \in 1..4 : bytes[i] # 0
    /\ IsU32(time) /\ time # ZERO
    /\ InRange(bytes, time)

\* value = encoding mod 2^32, as four bytes
DecodeValue(e) == SubSeq(e, 1, 4)

\* timestamp = encoding div 2^32, as a field element
DecodeTime(e) == SubSeq(e, 5, 8) \o <<0, 0, 0, 0>>

\* C5: for every in-range pair (value, timestamp), decoding the encoding
\* gives back the pair.
C5_RoundTrip ==
    (IsSome(encoding) /\ InRange(bytes, time)) =>
        /\ DecodeValue(Unwrap(encoding)) = bytes
        /\ DecodeTime(Unwrap(encoding)) = time

\* C5 witness: the largest in-range timestamp 2^32 - 2 with the largest value
\* has been encoded and decodes to itself.
C5_Witness ==
    /\ IsSome(encoding)
    /\ bytes = <<255, 255, 255, 255>>
    /\ time = <<254, 255, 255, 255, 0, 0, 0, 0>>
    /\ InRange(bytes, time)
    /\ DecodeTime(Unwrap(encoding)) = time

---------------------------------------------------------------------------
(* Pointer accumulation (RawPointer::accumulate, PointerAccumulator).      *)

MaxAccesses == 3      \* stores and loads of one execution

\* ArithmeticExpression: its value on the row, and whether it reads the trace
Expression(value, is_trace) == [value |-> value, is_trace |-> is_trace]

\* CompressedValue::Element
CompressedValue_Element(value) == [kind |-> "Element", value |-> value]

\* CompressedValue::Cubic: the three expressions of an extension value
CompressedValue_Cubic(value) == [kind |-> "Cubic", value |-> value]

\* the extension element a compressed value stands for: a scalar is
\* embedded in the extension, an extension value is taken as it is
CompressedValue_eval(v) ==
    CASE v.kind = "Element" -> element_from_base_field(v.value.value)
      [] v.kind = "Cubic" -> <<v.value[1].value, v.value[2].value, v.value[3].value>>

\* PointerAccumulator::new
PointerAccumulator_new(pointer, value, digest) ==
    [ptr |-> pointer, value |-> value, digest |-> digest]

\* RawPointer::accumulate: the digest register is allocated in the extended
\* (row-local) storage when the value reads the trace and in the global
\* storage otherwise; the accumulator binds the pointer, the value and the
\* digest; next is the index the allocator hands out
RawPointer_accumulate(self, value, next) ==
    LET digest == IF value.is_trace
                  THEN [storage |-> "extended", index |-> next]
                  ELSE [storage |-> "global", index |-> next]
        accumulator == PointerAccumulator_new(self, CompressedValue_Element(value), digest)
    IN  [digest |-> digest, accumulator |-> accumulator]

\* accumulate_cubic allocating in the extended storage only when every
\* component of the value reads the trace
RawPointer_accumulate_cubic_AllTrace(self, value, next) ==
    [digest |->
        [storage |-> IF \A i \in 1..3 : value[i].is_trace THEN "extended" ELSE "global",
         index |-> next],
     accumulator |->
        PointerAccumulator_new(self, CompressedValue_Cubic(value),
            [storage |-> IF \A i \in 1..3 : value[i].is_trace THEN "extended" ELSE "global",
             index |-> next])]

\* RawPointer::accumulate_cubic: the digest register is allocated in the
\* extended storage unless no component of the value reads the trace
RawPointer_accumulate_cubic(self, value, next) ==
    LET digest == IF ~(\A i \in 1..3 : ~value[i].is_trace)
                  THEN [storage |-> "extended", index |-> next]
                  ELSE [storage |-> "global", index |-> next]
        accumulator == PointerAccumulator_new(self, CompressedValue_Cubic(value), digest)
    IN  [digest |-> digest, accumulator |-> accumulator]

\* the fold with the value left out of the sum
Fold_ProductOnly(addr, v) == mul_extension(addr, v)

\* the fold of an address and a compressed value: address * value + value
Fold(addr, v) == add_extension(mul_extension(addr, v), v)

\* the value the accumulator's constraint gives the digest register on a row
PointerAccumulator_digest(accumulator, row_index) ==
    Fold(RawPointer_eval(accumulator.ptr, row_index),
         CompressedValue_eval(accumulator.value))

\* the pointers of the memory accesses: the bare pointer of challenge 0, and
\* two expressions of the address one above it, by a constant shift and by
\* the element register
MemPointers ==
    {RawPointer_from_challenge(0),
     RawPointer_new(0, None, Some(<<1, 0, 0, 0>>)),
     RawPointer_new(0, Some(0), None)}

\* the values stored: 42 and 99, as U32 registers
MemValues == {<<42, 0, 0, 0>>, <<99, 0, 0, 0>>}

\* the digests the memory accesses can produce
MemDigests ==
    {Fold(add_extension(ChallengeValues[0], element_from_base_field(s)),
          element_from_base_field(U32Register_compress(v, from_canonical_u8(t)))) :
        s \in {ZERO, ONE}, v \in MemValues, t \in 0..(MaxAccesses - 1)}

---------------------------------------------------------------------------
(* The log-derivative lookup argument (chip/table/lookup).                 *)

LookupRows == 2       \* rows of the lookup trace

\* the field element of a small count
from_canonical_usize(n) == from_canonical_u8(n)

\* LookupChipConstraint: From<LookupConstraint<ElementRegister, F, E>> gives
\* the Element variant, From<LookupConstraint<CubicRegister, F, E>> the
\* CubicElement variant
LookupChipConstraint_from(register_type) ==
    CASE register_type = "ElementRegister" -> [variant |-> "Element"]
      [] register_type = "CubicRegister" -> [variant |-> "CubicElement"]

\* digests of a scalar-keyed table: 5 and p - 1
ElementDigests == <<from_canonical_u8(5), FSub(ZERO, ONE)>>

\* digests of an extension-keyed table
CubicDigests ==
    <<<<from_canonical_u8(9), from_canonical_u8(1), ZERO>>,
      <<FSub(ZERO, ONE), ZERO, from_canonical_u8(4)>>>>

\* the challenges beta at which the constraints are evaluated: one that is
\* no digest of any table, and one equal to a digest of each kind of table
Betas ==
    {<<from_canonical_u8(3), FSub(ZERO, from_canonical_u8(2)), from_canonical_u8(7)>>,
     element_from_base_field(ElementDigests[1]),
     CubicDigests[1]}

\* every digest a table can hold, as an extension element
TableDigests ==
    {element_from_base_field(ElementDigests[n]) : n \in 1..2}
        \cup {CubicDigests[n] : n \in 1..2} \cup MemDigests

\* the inverses of the differences beta - entry of the challenges and the
\* digests of the tables, computed once
Reciprocals ==
    [x \in {CSub(b, e) : b \in Betas, e \in TableDigests} |-> inverse_extension(x)]

\* the reciprocal register of an entry at the challenge beta: the witness
\* generation writes the inverse of beta - entry
Reciprocal(beta, entry) ==
    LET x == CSub(beta, entry)
    IN  IF x \in DOMAIN lkInverses THEN lkInverses[x] ELSE inverse_extension(x)

\* the side constraint aux * (beta - entry) == target of a reciprocal register
SideConstraint(aux, beta, entry, target) ==
    mul_extension(aux, CSub(beta, entry)) = target

\* the looking sum with every term left out
LookingSum_Empty(beta, e, i) == CZERO

\* the sum of the reciprocal registers of the looking digests e[i..] of a row
RECURSIVE LookingSum(_, _, _)
LookingSum(beta, e, i) ==
    IF i > Len(e) THEN CZERO
    ELSE add_extension(Reciprocal(beta, e[i]), LookingSum(beta, e, i + 1))

\* the looked-up sum with every multiplicity taken as one
RECURSIVE TableSum_IgnoresMultiplicity(_, _, _)
TableSum_IgnoresMultiplicity(beta, t, j) ==
    IF j > Len(t) THEN CZERO
    ELSE add_extension(Reciprocal(beta, t[j].digest),
                       TableSum_IgnoresMultiplicity(beta, t, j + 1))

\* the sum of multiplicity * reciprocal over the looked-up pairs t[j..]
RECURSIVE TableSum(_, _, _)
TableSum(beta, t, j) ==
    IF j > Len(t) THEN CZERO
    ELSE add_extension(
            scalar_mul_extension(Reciprocal(beta, t[j].digest),
                                 from_canonical_usize(t[j].multiplicity)),
            TableSum(beta, t, j + 1))

\* the side constraints of the reciprocal registers of a row: aux * (beta -
\* entry) == 1 on the looking side, == multiplicity on the looked-up side
RowSideConstraints(beta, r) ==
    /\ \A i \in 1..Len(r.looking) :
            SideConstraint(Reciprocal(beta, r.looking[i]), beta, r.looking[i], CONE)
    /\ \A j \in 1..Len(r.table) :
            LET m == from_canonical_usize(r.table[j].multiplicity)
            IN  SideConstraint(
                    scalar_mul_extension(Reciprocal(beta, r.table[j].digest), m),
                    beta, r.table[j].digest, element_from_base_field(m))

\* the row term with the looked-up side added instead of subtracted
RowTerm_AddsTable(beta, r) ==
    add_extension(LookingSum(beta, r.looking, 1), TableSum(beta, r.table, 1))

\* what a row adds to the running sum
RowTerm(beta, r) == CSub(LookingSum(beta, r.looking, 1), TableSum(beta, r.table, 1))

\* LookupConstraint::eval on a row whose digests are extension elements
LookupConstraint_eval(beta, r) ==
    [term |-> RowTerm(beta, r), side |-> RowSideConstraints(beta, r)]

\* a row of scalar digests, each embedded in the extension
EmbedRow(r) ==
    [looking |-> [i \in 1..Len(r.looking) |-> element_from_base_field(r.looking[i])],
     table |-> [j \in 1..Len(r.table) |->
                    [digest |-> element_from_base_field(r.table[j].digest),
                     multiplicity |-> r.table[j].multiplicity]]]

\* the chip constraint evaluating the constraint it carries a second time
LookupChipConstraint_eval_Twice(self, beta, r) ==
    CASE self.variant = "Element" ->
            [term |-> add_extension(LookupConstraint_eval(beta, EmbedRow(r)).term,
                                    LookupConstraint_eval(beta, EmbedRow(r)).term),
             side |-> LookupConstraint_eval(beta, EmbedRow(r)).side]
      [] self.variant = "CubicElement" ->
            [term |-> add_extension(LookupConstraint_eval(beta, r).term,
                                    LookupConstraint_eval(beta, r).term),
             side |-> LookupConstraint_eval(beta, r).side]

\* LookupChipConstraint::eval: the constraint the variant carries is evaluated
LookupChipConstraint_eval(self, beta, r) ==
    CASE self.variant = "Element" -> LookupConstraint_eval(beta, EmbedRow(r))
      [] self.variant = "CubicElement" -> LookupConstraint_eval(beta, r)

Multiplicities == {0, 1, 2}

\* the digests a table of the given variant holds
DigestsOf(c) == IF c.variant = "Element" THEN ElementDigests ELSE CubicDigests

\* the rows a trace may hold at index k: no or one looking digest, and the
\* looked-up digest of the row with any multiplicity
LookupRowsAt(c, k) ==
    {[looking |-> l, table |-> <<[digest |-> DigestsOf(c)[2 - (k % 2)], multiplicity |-> m]>>] :
        l \in {<<>>} \cup {<<DigestsOf(c)[n]>> : n \in 1..2}, m \in Multiplicities}

RECURSIVE LookupTraces(_, _)
LookupTraces(c, n) ==
    IF n = 0 THEN {<<>>}
    ELSE {Append(t, r) : t \in LookupTraces(c, n - 1), r \in LookupRowsAt(c, n)}

ZeroSums == [b \in Betas |-> CZERO]

InitLookup ==
    /\ lkInverses = Reciprocals
    /\ lkConstraint \in {Some(LookupChipConstraint_from(t)) :
                            t \in {"ElementRegister", "CubicRegister"}}
    /\ lkTrace \in LookupTraces(Unwrap(lkConstraint), LookupRows)
    /\ lkRow = 0
    /\ lkSum = ZeroSums
    /\ lkSide = [b \in Betas |-> TRUE]
    /\ lkVerdict = None
    /\ IdlePointer
    /\ IdleEncode
    /\ IdleMemory
    /\ IdleAccumulate
    /\ IdleConstruct
    /\ IdleLimbs
    /\ IdleBlake
    /\ IdleMix

\* the constraints of the table are evaluated on the next row: the running
\* sum moves by the term of the row
AccumulateRow ==
    /\ IsSome(lkConstraint)
    /\ lkRow < Len(lkTrace)
    /\ lkSum' = [b \in Betas |->
            add_extension(lkSum[b],
                LookupChipConstraint_eval(Unwrap(lkConstraint), b, lkTrace[lkRow + 1]).term)]
    /\ lkSide' = [b \in Betas |->
            lkSide[b]
            /\ LookupChipConstraint_eval(Unwrap(lkConstraint), b, lkTrace[lkRow + 1]).side]
    /\ lkRow' = lkRow + 1
    /\ UNCHANGED <<lkConstraint, lkTrace, lkVerdict, lkInverses, outsideLookup>>

\* the global constraint: the total accumulated over all rows is zero; the
\* trace is accepted at a challenge when the global constraint and the side
\* constraints of every row hold there
GlobalConstraint ==
    /\ IsSome(lkConstraint)
    /\ lkRow = Len(lkTrace)
    /\ lkVerdict = None
    /\ lkVerdict' = Some([b \in Betas |->
                            [global |-> lkSum[b] = CZERO,
                             accepted |-> lkSide[b] /\ lkSum[b] = CZERO]])
    /\ UNCHANGED <<lkConstraint, lkTrace, lkRow, lkSum, lkSide, lkInverses, outsideLookup>>

NextLookup == AccumulateRow \/ GlobalConstraint

SpecLookup == InitLookup /\ [][NextLookup]_vars

---------------------------------------------------------------------------
(* Claims about the lookup argument.                                       *)

\* the occurrences of the digest d among the looking digests e[i..]
RECURSIVE CountIn(_, _, _)
CountIn(e, d, i) ==
    IF i > Len(e) THEN 0
    ELSE (IF e[i] = d THEN 1 ELSE 0) + CountIn(e, d, i + 1)

\* the occurrences of d in the looking multiset of the rows t[k..]
RECURSIVE LookingCount(_, _, _)
LookingCount(t, d, k) ==
    IF k > Len(t) THEN 0
    ELSE CountIn(t[k].looking, d, 1) + LookingCount(t, d, k + 1)

\* the multiplicity of d among the looked-up pairs u[j..] of a row
RECURSIVE MultiplicityIn(_, _, _)
MultiplicityIn(u, d, j) ==
    IF j > Len(u) THEN 0
    ELSE (IF u[j].digest = d THEN u[j].multiplicity ELSE 0) + MultiplicityIn(u, d, j + 1)

\* the multiplicity of d in the looked-up multiset of the rows t[k..]
RECURSIVE TableCount(_, _, _)
TableCount(t, d, k) ==
    IF k > Len(t) THEN 0
    ELSE MultiplicityIn(t[k].table, d, 1) + TableCount(t, d, k + 1)

\* the digests that occur in a trace, on either side
DigestsIn(t) ==
    UNION {{t[k].looking[i] : i \in 1..Len(t[k].looking)}
            \cup {t[k].table[j].digest : j \in 1..Len(t[k].table)} : k \in 1..Len(t)}

\* the looking multiset is the looked-up multiset, multiplicities counted
Included(t) == \A d \in DigestsIn(t) : LookingCount(t, d, 1) = TableCount(t, d, 1)

\* the looking multiset is a sub-multiset of the looked-up multiset
SubMultiset(t) == \A d \in DigestsIn(t) : LookingCount(t, d, 1) <= TableCount(t, d, 1)

\* a row as the constraint of the table sees it
RowSeen(r) ==
    IF Unwrap(lkConstraint).variant = "Element" THEN EmbedRow(r) ELSE r

\* beta is none of the entries of the row whose reciprocal is used
Defined(beta, r) ==
    /\ \A i \in 1..Len(r.looking) : r.looking[i] # beta
    /\ \A j \in 1..Len(r.table) :
            r.table[j].multiplicity # 0 => r.table[j].digest # beta

\* all rows of the trace have been accumulated
Accumulated == IsSome(lkConstraint) /\ lkRow = Len(lkTrace)

\* C6: when the looking multiset is the looked-up multiset with matching
\* multiplicities, the running sum ends at exactly zero and the global
\* constraint evaluates to zero at every challenge beta; the trace is
\* accepted at every beta at which the reciprocals of its entries exist.
C6_LookupAcceptance ==
    (Accumulated /\ Included(lkTrace)) =>
        \A b \in Betas :
            /\ lkSum[b] = CZERO
            /\ IsSome(lkVerdict) =>
                    /\ Unwrap(lkVerdict)[b].global
                    /\ (\A k \in 1..Len(lkTrace) : Defined(b, RowSeen(lkTrace[k])))
                            => Unwrap(lkVerdict)[b].accepted

\* C6 witness: a digest is looked up twice, from two rows, against a pair
\* of multiplicity 2, and the global constraint has been evaluated and is
\* satisfied at a challenge.
C6_Witness ==
    /\ Accumulated /\ IsSome(lkVerdict)
    /\ Included(lkTrace)
    /\ \E d \in DigestsIn(lkTrace) :
            /\ LookingCount(lkTrace, d, 1) = 2
            /\ \E k \in 1..Len(lkTrace) : lkTrace[k].table[1] = [digest |-> d, multiplicity |-> 2]
    /\ \E b \in Betas : Unwrap(lkVerdict)[b].accepted
    /\ \A b \in Betas : lkSum[b] = CZERO /\ Unwrap(lkVerdict)[b].global

\* C7: when the looking multiset is not a sub-multiset of the looked-up
\* multiset, the running sum ends at a non-zero value at one challenge beta
\* at least, and the global constraint is violated there.
C7_LookupRejection ==
    (Accumulated /\ ~SubMultiset(lkTrace)) =>
        \E b \in Betas :
            /\ lkSum[b] # CZERO
            /\ IsSome(lkVerdict) => ~Unwrap(lkVerdict)[b].global

\* C7 witness: a digest is looked up although every pair of the table has
\* multiplicity 0, and the global constraint has been evaluated and is
\* violated at a challenge with a non-zero total.
C7_Witness ==
    /\ Accumulated /\ IsSome(lkVerdict)
    /\ ~SubMultiset(lkTrace)
    /\ \A k \in 1..Len(lkTrace) : lkTrace[k].table[1].multiplicity = 0
    /\ \E b \in Betas : lkSum[b] # CZERO /\ ~Unwrap(lkVerdict)[b].global

\* the fraction n / d plus 1 / (beta - e[i]) for the looking digests e[i..],
\* as a pair <<numerator, denominator>>
RECURSIVE PlusLooking(_, _, _, _)
PlusLooking(f, beta, e, i) ==
    IF i > Len(e) THEN f
    ELSE LET x == CSub(beta, e[i])
         IN  PlusLooking(<<add_extension(mul_extension(f[1], x), f[2]),
                           mul_extension(f[2], x)>>, beta, e, i + 1)

\* the fraction n / d minus multiplicity / (beta - digest) for the pairs u[j..]
RECURSIVE MinusTable(_, _, _, _)
MinusTable(f, beta, u, j) ==
    IF j > Len(u) THEN f
    ELSE LET x == CSub(beta, u[j].digest)
             m == from_canonical_usize(u[j].multiplicity)
         IN  MinusTable(<<CSub(mul_extension(f[1], x), scalar_mul_extension(f[2], m)),
                          mul_extension(f[2], x)>>, beta, u, j + 1)

\* sum 1 / (beta - looking_i) - sum multiplicity_j / (beta - looked_up_j) of
\* a row, as a fraction
RowFraction(beta, r) ==
    MinusTable(PlusLooking(<<CZERO, CONE>>, beta, r.looking, 1), beta, r.table, 1)

\* one step of the table: the running sum of the next row is the running sum
\* of the row plus the fraction of the row, and the global constraint is
\* satisfied only by a total of zero over all rows
C8_Step ==
    /\ lkRow' # lkRow =>
            /\ lkRow' = lkRow + 1
            /\ \A b \in Betas :
                    LET r == RowSeen(lkTrace[lkRow + 1])
                        f == RowFraction(b, r)
                    IN  Defined(b, r) =>
                            mul_extension(CSub(lkSum'[b], lkSum[b]), f[2]) = f[1]
    /\ lkRow' = lkRow => lkSum' = lkSum
    /\ (lkVerdict = None /\ IsSome(lkVerdict')) =>
            /\ lkRow = Len(lkTrace)
            /\ \A b \in Betas : Unwrap(lkVerdict')[b].global <=> lkSum[b] = CZERO

\* C8: the table has one running sum, updated row by row: the value on the
\* next row is the value on the row plus the sum of 1 / (beta - looking_i)
\* over the row's looking digests minus the sum of multiplicity_j /
\* (beta - looked_up_j) over the row's looked-up digests, and the global
\* constraint requires the total over all rows to be zero.
C8_RunningSum == [][C8_Step]_vars

\* C8 witness: the last row has been accumulated onto a running sum that
\* was not zero before it, since the first row looks up a digest that only
\* the second row's pair provides, and the global constraint is satisfied.
C8_Witness ==
    /\ Accumulated /\ IsSome(lkVerdict)
    /\ Len(lkTrace) >= 2
    /\ Len(lkTrace[1].looking) = 1
    /\ lkTrace[1].table[1].multiplicity = 0
    /\ lkTrace[2].table[1] = [digest |-> lkTrace[1].looking[1], multiplicity |-> 1]
    /\ Included(lkTrace)
    /\ \E b \in Betas : Unwrap(lkVerdict)[b].accepted

---------------------------------------------------------------------------
(* The memory layer: stores put the digest of (pointer, value, timestamp)  *)
(* on the looked-up side of the memory table, loads put a digest on the    *)
(* looking side; the lookup argument is then evaluated on the trace.       *)

InitMemory ==
    /\ lkInverses = Reciprocals
    /\ lkConstraint = None
    /\ lkTrace = <<>>
    /\ lkRow = 0
    /\ lkSum = <<>>
    /\ lkSide = <<>>
    /\ lkVerdict = None
    /\ IdlePointer
    /\ IdleEncode
    /\ IdleMemory
    /\ IdleAccumulate
    /\ IdleConstruct
    /\ IdleLimbs
    /\ IdleBlake
    /\ IdleMix

\* the execution is still issuing accesses
Executing == lkConstraint = None /\ Len(stores) + Len(loads) < MaxAccesses

\* the digest of an access through the pointer p of the value v at time t:
\* the value encoding goes through the pointer's accumulate
AccessDigest(p, v, t) ==
    LET a == RawPointer_accumulate(p, Expression(U32Register_compress(v, t), TRUE),
                                   Len(stores) + Len(loads))
    IN  [register |-> a.digest,
         digest |-> PointerAccumulator_digest(a.accumulator, row)]

\* a store of the value v through the pointer p; the timestamp is the
\* number of stores before it
Store ==
    \E p \in MemPointers : \E v \in MemValues :
        LET t == from_canonical_u8(Len(stores))
            k == RawPointer_read(p, row)
            d == AccessDigest(p, v, t)
        IN  /\ Executing
            /\ stores' = Append(stores,
                            [key |-> k, value |-> v, time |-> t,
                             register |-> d.register, digest |-> d.digest,
                             multiplicity |-> 0])
            /\ memory' = [x \in DOMAIN memory \cup {k} |->
                            IF x = k THEN Len(stores) + 1 ELSE memory[x]]
            /\ UNCHANGED <<loads, lkVars, outsideMemory>>

\* a load through the pointer p: the key of the pointer finds the current
\* store of the address in the host-side map, the load presents the digest
\* of that store's value and timestamp, and the store counts one more read
Load ==
    \E p \in MemPointers :
        LET k == RawPointer_read(p, row)
        IN  /\ Executing
            /\ k \in DOMAIN memory
            /\ LET cur == memory[k]
                   d == AccessDigest(p, stores[cur].value, stores[cur].time)
               IN  /\ loads' = Append(loads,
                                [key |-> k, current |-> cur, presented |-> cur,
                                 register |-> d.register, digest |-> d.digest])
                   /\ stores' = [stores EXCEPT ![cur].multiplicity = @ + 1]
            /\ UNCHANGED <<memory, lkVars, outsideMemory>>

\* a load of a circuit that presents the digest of an overwritten store of
\* the address instead of the current one
LoadStale ==
    \E p \in MemPointers : \E old \in 1..Len(stores) :
        LET k == RawPointer_read(p, row)
        IN  /\ Executing
            /\ k \in DOMAIN memory
            /\ stores[old].key = k
            /\ old # memory[k]
            /\ LET cur == memory[k]
                   d == AccessDigest(p, stores[old].value, stores[old].time)
               IN  /\ loads' = Append(loads,
                                [key |-> k, current |-> cur, presented |-> old,
                                 register |-> d.register, digest |-> d.digest])
                   /\ stores' = [stores EXCEPT ![cur].multiplicity = @ + 1]
            /\ UNCHANGED <<memory, lkVars, outsideMemory>>

\* row k of the trace of the memory table: the digest of load k on the
\* looking side, the digest and the multiplicity of store k on the looked-up
\* side
MemoryRow(k) ==
    [looking |-> IF k <= Len(loads) THEN <<loads[k].digest>> ELSE <<>>,
     table |-> IF k <= Len(stores)
               THEN <<[digest |-> stores[k].digest,
                       multiplicity |-> stores[k].multiplicity]>>
               ELSE <<>>]

\* the execution ends: the digests are extension registers, so the memory
\* table carries the CubicElement variant of the lookup constraint
Seal ==
    /\ lkConstraint = None
    /\ Len(loads) >= 1
    /\ lkConstraint' = Some(LookupChipConstraint_from("CubicRegister"))
    /\ lkTrace' = [k \in 1..(IF Len(stores) > Len(loads) THEN Len(stores) ELSE Len(loads))
                        |-> MemoryRow(k)]
    /\ lkRow' = 0
    /\ lkSum' = ZeroSums
    /\ lkSide' = [b \in Betas |-> TRUE]
    /\ lkVerdict' = None
    /\ UNCHANGED <<lkInverses, memVars, outsideMemory>>

NextMemory == Store \/ Load \/ LoadStale \/ Seal \/ AccumulateRow \/ GlobalConstraint

SpecMemory == InitMemory /\ [][NextMemory]_vars

---------------------------------------------------------------------------
(* Claims about the memory scenarios.                                      *)

\* every load presented the digest of the store that was current
Honest == \A k \in 1..Len(loads) : loads[k].presented = loads[k].current

\* C9: a store and a load of the same address that presents the stored value
\* and timestamp produce the identical digest on the looked-up side and on
\* the looking side, and when every load does so the running sum of the
\* lookup ends at zero and the trace is accepted.
C9_StoreThenLoad ==
    /\ \A k \in 1..Len(loads) :
            loads[k].presented = loads[k].current
                => loads[k].digest = stores[loads[k].current].digest
    /\ (Accumulated /\ Honest) =>
            \A b \in Betas :
                /\ lkSum[b] = CZERO
                /\ IsSome(lkVerdict) => Unwrap(lkVerdict)[b].accepted

\* C9 witness: 42 has been stored at timestamp 0, the one load of the
\* address presented the identical digest, and the lookup has been
\* evaluated and accepted.
C9_Witness ==
    /\ Len(stores) = 1 /\ Len(loads) = 1
    /\ stores[1].value = <<42, 0, 0, 0>> /\ stores[1].time = ZERO
    /\ stores[1].multiplicity = 1
    /\ loads[1].presented = 1
    /\ loads[1].digest = stores[1].digest
    /\ IsSome(lkVerdict)
    /\ \A b \in Betas : lkSum[b] = CZERO /\ Unwrap(lkVerdict)[b].accepted

\* C10: a load presents the digest of the current store of its address, the
\* one of the last write; when a load presents the digest of an overwritten
\* store instead, that digest differs from the current one, the running sum
\* ends at a non-zero value at one challenge at least, and the trace is not
\* accepted there.
C10_StaleLoadRejected ==
    /\ \A k \in 1..Len(loads) :
            loads[k].presented # loads[k].current =>
                /\ loads[k].digest = stores[loads[k].presented].digest
                /\ loads[k].digest # stores[loads[k].current].digest
    /\ (Accumulated /\ ~Honest) =>
            \E b \in Betas :
                /\ lkSum[b] # CZERO
                /\ IsSome(lkVerdict) =>
                        /\ ~Unwrap(lkVerdict)[b].global
                        /\ ~Unwrap(lkVerdict)[b].accepted

\* C10 witness: 42 was stored at timestamp 0 and overwritten by 99 at
\* timestamp 1, the load presented the digest of (42, 0), and the lookup has
\* been evaluated and failed.
C10_Witness ==
    /\ Len(stores) = 2 /\ Len(loads) = 1
    /\ stores[1].value = <<42, 0, 0, 0>> /\ stores[1].time = ZERO
    /\ stores[2].value = <<99, 0, 0, 0>> /\ stores[2].time = ONE
    /\ stores[1].key = stores[2].key
    /\ loads[1].current = 2 /\ loads[1].presented = 1
    /\ IsSome(lkVerdict)
    /\ \E b \in Betas : ~Unwrap(lkVerdict)[b].accepted


---------------------------------------------------------------------------
(* The accumulation specification: a circuit under construction calls      *)
(* accumulate and accumulate_cubic on its pointers, directly or through    *)
(* the value encoding of a U32 register; each call allocates a digest      *)
(* register and registers an accumulator with the builder.                 *)

MaxCalls == 2         \* calls of accumulate made on one builder

\* the pointers of the encoded accesses
AccPointers == MemPointers

\* the pointers value expressions are accumulated on directly: one without
\* shift and one shifted by the element register
AccDirectPointers == {RawPointer_from_challenge(0), RawPointer_new(0, Some(0), None)}

\* the value expressions accumulated directly: the constant 5, read from the
\* trace or not
AccExpressions == {Expression(from_canonical_u8(5), t) : t \in BOOLEAN}

\* the extension values accumulated: (5, 6, 7), each component read from the
\* trace or not
AccCubics ==
    {<<Expression(from_canonical_u8(5), f[1]), Expression(from_canonical_u8(6), f[2]),
       Expression(from_canonical_u8(7), f[3])>> : f \in [1..3 -> BOOLEAN]}

\* the pointers extension values are accumulated on
AccCubicPointers == {RawPointer_new(0, Some(0), None)}

\* the U32 registers and the timestamps of the encoded accesses: 0 at time
\* 0 and 42 at time 1
AccAccesses ==
    {[bytes |-> <<0, 0, 0, 0>>, time |-> ZERO], [bytes |-> <<42, 0, 0, 0>>, time |-> ONE]}

\* the traces the accumulators are evaluated on: the element register holds
\* one on every row, or the index of the row
AccTraces == {[r \in Rows |-> ONE], [r \in Rows |-> from_canonical_u8(r)]}

InitAccumulate ==
    /\ builder = AirBuilder_new
    /\ calls = <<>>
    /\ trace \in AccTraces
    /\ challenges = ChallengeValues
    /\ ptr = None
    /\ row = 0
    /\ address = None
    /\ key = None
    /\ prev = None
    /\ IdleEncode
    /\ IdleLookup
    /\ IdleMemory
    /\ IdleConstruct
    /\ IdleLimbs
    /\ IdleBlake
    /\ IdleMix

\* the builder registering the accumulator without using up the register
AirBuilder_after_SameRegister(b, a) ==
    [next |-> b.next, accumulators |-> Append(b.accumulators, a.accumulator)]

\* AirBuilder after a call: the register handed out is used up and the
\* accumulator registered (alloc_extended / alloc_global, register)
AirBuilder_after(b, a) ==
    [next |-> b.next + 1, accumulators |-> Append(b.accumulators, a.accumulator)]

\* RawPointer::accumulate, called by the circuit
Accumulate ==
    /\ Len(calls) < MaxCalls
    /\ \E p \in AccDirectPointers, e \in AccExpressions :
        /\ builder' = AirBuilder_after(builder, RawPointer_accumulate(p, e, builder.next))
        /\ calls' = Append(calls,
                [op |-> "accumulate", ptr |-> p, value |-> CompressedValue_Element(e),
                 returned |-> RawPointer_accumulate(p, e, builder.next).digest])
    /\ UNCHANGED <<ptrVars, outsideAccumulate>>

\* RawPointer::accumulate_cubic, called by the circuit
AccumulateCubic ==
    /\ Len(calls) < MaxCalls
    /\ \E p \in AccCubicPointers, e \in AccCubics :
        /\ builder' = AirBuilder_after(builder,
                            RawPointer_accumulate_cubic(p, e, builder.next))
        /\ calls' = Append(calls,
                [op |-> "accumulate_cubic", ptr |-> p, value |-> CompressedValue_Cubic(e),
                 returned |-> RawPointer_accumulate_cubic(p, e, builder.next).digest])
    /\ UNCHANGED <<ptrVars, outsideAccumulate>>

\* MemoryValue::compress of a U32 register: the encoding of the bytes and the
\* timestamp, an expression over trace registers, is handed to accumulate
CompressU32 ==
    /\ Len(calls) < MaxCalls
    /\ \E p \in AccPointers, a \in AccAccesses :
        /\ builder' = AirBuilder_after(builder,
                RawPointer_accumulate(p,
                    Expression(U32Register_compress(a.bytes, a.time), TRUE), builder.next))
        /\ calls' = Append(calls,
                [op |-> "compress", ptr |-> p, bytes |-> a.bytes, time |-> a.time,
                 value |-> CompressedValue_Element(
                                Expression(U32Register_compress(a.bytes, a.time), TRUE)),
                 returned |-> RawPointer_accumulate(p,
                                Expression(U32Register_compress(a.bytes, a.time), TRUE),
                                builder.next).digest])
    /\ UNCHANGED <<ptrVars, outsideAccumulate>>

NextAccumulate == Accumulate \/ AccumulateCubic \/ CompressU32

SpecAccumulate == InitAccumulate /\ [][NextAccumulate]_vars

Bare(p) == p.element_shift = None /\ p.constant_shift = None

\* a pointer of the same challenge as p whose only shift is a non-zero constant
ConstantShifted(p, q) ==
    /\ q.challenge = p.challenge
    /\ q.element_shift = None
    /\ IsSome(q.constant_shift)
    /\ Unwrap(q.constant_shift) # <<0, 0, 0, 0>>

\* the calls i and j encode the same (value, time) on a bare pointer and on
\* its constant-shifted pointer
BareAndShifted(i, j) ==
    /\ calls[i].op = "compress" /\ calls[j].op = "compress"
    /\ calls[i].bytes = calls[j].bytes /\ calls[i].time = calls[j].time
    /\ Bare(calls[i].ptr)
    /\ ConstantShifted(calls[i].ptr, calls[j].ptr)

ShiftValue(p, r) ==
    IF IsSome(p.element_shift) THEN Some(trace[r]) ELSE None

\* the access of the call i on the row r and the access of the call j on the
\* row q have the same challenge, element shift value, constant shift, value
\* and time
SameInputs(i, r, j, q) ==
    /\ calls[i].op = "compress" /\ calls[j].op = "compress"
    /\ challenges[calls[i].ptr.challenge] = challenges[calls[j].ptr.challenge]
    /\ ShiftValue(calls[i].ptr, r) = ShiftValue(calls[j].ptr, q)
    /\ calls[i].ptr.constant_shift = calls[j].ptr.constant_shift
    /\ calls[i].bytes = calls[j].bytes
    /\ calls[i].time = calls[j].time

ValueReadsTrace(v) ==
    CASE v.kind = "Element" -> v.value.is_trace
      [] v.kind = "Cubic" -> \E i \in 1..3 : v.value[i].is_trace

\* C13 as stated: the digest register is row-local (extended) exactly when
\* an input of the accumulation is trace-dependent, the value expression or
\* the element shift register of the pointer, and global otherwise.
C13_Original ==
    \A k \in 1..Len(builder.accumulators) :
        /\ builder.accumulators[k].digest.storage \in {"extended", "global"}
        /\ builder.accumulators[k].digest.storage = "extended"
            <=> (ValueReadsTrace(builder.accumulators[k].value)
                    \/ IsSome(builder.accumulators[k].ptr.element_shift))

\* C13, the state the code reaches: a digest register in the global storage
\* whose accumulator gives it different values on two rows, because the
\* pointer is shifted by an element register of the trace
C13_GlobalDigestVaries ==
    \E k \in 1..Len(builder.accumulators) : \E r, q \in Rows :
        /\ builder.accumulators[k].digest.storage = "global"
        /\ IsSome(builder.accumulators[k].ptr.element_shift)
        /\ PointerAccumulator_digest(builder.accumulators[k], r)
                # PointerAccumulator_digest(builder.accumulators[k], q)

\* C14: accumulate allocates a row-local (extended) digest exactly when the
\* value expression reads the trace, accumulate_cubic exactly when at least
\* one of the three components of the value does, and both allocate a global
\* digest otherwise; the pointer plays no part in the choice.
C14_StorageByValue ==
    \A k \in 1..Len(calls) :
        /\ calls[k].returned.storage \in {"extended", "global"}
        /\ calls[k].op \in {"accumulate", "compress"} =>
                (calls[k].returned.storage = "extended" <=> calls[k].value.value.is_trace)
        /\ calls[k].op = "accumulate_cubic" =>
                (calls[k].returned.storage = "extended"
                    <=> \E i \in 1..3 : calls[k].value.value[i].is_trace)

C14_Witness ==
    \E k, m \in 1..Len(calls) :
        /\ calls[k].op = "accumulate_cubic"
        /\ calls[k].value.value[1].is_trace = FALSE
        /\ calls[k].value.value[2].is_trace = FALSE
        /\ calls[k].value.value[3].is_trace = TRUE
        /\ calls[k].returned.storage = "extended"
        /\ calls[m].op = "accumulate"
        /\ calls[m].value.value.is_trace = FALSE
        /\ calls[m].returned.storage = "global"

\* C18: every call of accumulate or accumulate_cubic, made directly or by the
\* encoding of a U32 register, allocates one fresh digest register, registers
\* one accumulator binding the pointer, the value and that digest, and
\* returns that digest; the encoding of a U32 register reaches the digest
\* only as the value of such an accumulator, whose digest is the fold of the
\* address and the encoding.
C18_OneAccumulatorPerCall ==
    /\ Len(builder.accumulators) = Len(calls)
    /\ builder.next = Len(calls)
    /\ \A k \in 1..Len(calls) :
        /\ builder.accumulators[k]
                = PointerAccumulator_new(calls[k].ptr, calls[k].value, calls[k].returned)
        /\ \A m \in 1..(k - 1) : calls[m].returned.index # calls[k].returned.index
        /\ calls[k].op = "compress" =>
            /\ calls[k].value
                = CompressedValue_Element(
                    Expression(U32Register_compress(calls[k].bytes, calls[k].time), TRUE))
            /\ PointerAccumulator_digest(builder.accumulators[k], row)
                = Fold(RawPointer_eval(calls[k].ptr, row),
                       element_from_base_field(
                            U32Register_compress(calls[k].bytes, calls[k].time)))

C18_Witness ==
    /\ Len(calls) = 2
    /\ calls[1].op = "compress"
    /\ calls[2].op = "accumulate_cubic"
    /\ calls[1].returned # calls[2].returned
    /\ builder.accumulators[2].digest = calls[2].returned


---------------------------------------------------------------------------
(* Construction of a pointer under a generic field.  RawPointer::new takes *)
(* the constant shift as a u32 and eval and read convert it with           *)
(* from_canonical_u32 of the field the AIR is instantiated with; the       *)
(* conversion is defined for a u32 below the order of the field only.      *)

\* the order of a field of fewer than 32 bits, 2^31 - 2^27 + 1 = 0x78000001
SmallOrder == <<1, 0, 0, 120, 0, 0, 0, 0>>

\* the orders of the fields the AIR is instantiated with: Goldilocks, and a
\* field of 31 bits
FieldOrders == {P, SmallOrder}

\* the u32 constant shifts: 1, the small order minus one, the small order,
\* and 2^32 - 1
CtorShifts == {<<1, 0, 0, 0>>, <<0, 0, 0, 120>>, <<1, 0, 0, 120>>, <<255, 255, 255, 255>>}

\* a u32 is a canonical representative in the field of the given order
is_canonical_u32(c, ord) == ~Ge(from_canonical_u32(c), ord)

\* the pointer has a constant shift too large for the field
Malformed(self, ord) ==
    IsSome(self.constant_shift) /\ ~is_canonical_u32(Unwrap(self.constant_shift), ord)

\* a natural number reduced modulo the order
RECURSIVE ModOrder(_, _)
ModOrder(a, ord) == IF Ge(a, ord) THEN ModOrder(NSub(a, ord), ord) ELSE a

\* what from_canonical_u32 can give for the constant shift: its
\* representative when it is canonical; otherwise the debug assertion of the
\* conversion fails, or the conversion goes on with the unreduced word or
\* with the word reduced modulo the order
ConvertedShifts(c, ord) ==
    IF is_canonical_u32(c, ord)
    THEN {[result |-> "value", shift |-> from_canonical_u32(c)]}
    ELSE {[result |-> "panic", shift |-> ZERO],
          [result |-> "value", shift |-> from_canonical_u32(c)],
          [result |-> "value", shift |-> ModOrder(from_canonical_u32(c), ord)]}

\* what the conversion of the shift of a pointer gives on a row
ShiftOutcomes(self, ord) ==
    IF IsSome(self.constant_shift)
    THEN ConvertedShifts(Unwrap(self.constant_shift), ord)
    ELSE {[result |-> "value", shift |-> ZERO]}

InitConstruct ==
    /\ order \in FieldOrders
    /\ built = None
    /\ outcome = None
    /\ IdlePointer
    /\ IdleEncode
    /\ IdleLookup
    /\ IdleMemory
    /\ IdleAccumulate
    /\ IdleLimbs
    /\ IdleBlake
    /\ IdleMix

\* RawPointer::new: stores its three arguments; it has no check and no way
\* to fail
Construct ==
    /\ built = None
    /\ \E c \in ChallengeRegisters :
       \E e \in {None} \cup {Some(s) : s \in ElementRegisters} :
       \E k \in {None} \cup {Some(s) : s \in CtorShifts} :
            built' = Some(RawPointer_new(c, e, k))
    /\ UNCHANGED <<order, outcome, outsideConstruct>>

\* RawPointer::eval on a row of the pointer built: the constant shift is
\* converted into the field
EvalBuilt ==
    /\ IsSome(built)
    /\ outcome = None
    /\ \E r \in Rows : \E o \in ShiftOutcomes(Unwrap(built), order) :
            outcome' = Some([op |-> "eval", row |-> r,
                             result |-> o.result, shift |-> o.shift])
    /\ UNCHANGED <<order, built, outsideConstruct>>

\* RawPointer::read on a row of the pointer built: the same conversion at
\* witness time
ReadBuilt ==
    /\ IsSome(built)
    /\ outcome = None
    /\ \E r \in Rows : \E o \in ShiftOutcomes(Unwrap(built), order) :
            outcome' = Some([op |-> "read", row |-> r,
                             result |-> o.result, shift |-> o.shift])
    /\ UNCHANGED <<order, built, outsideConstruct>>

NextConstruct == Construct \/ EvalBuilt \/ ReadBuilt

SpecConstruct == InitConstruct /\ [][NextConstruct]_vars

\* C15 as stated: the construction of a pointer whose constant shift is too
\* large for the field fails with an assertion, so that no pointer built has
\* such a shift and none is evaluated by eval or read.
C15_Original ==
    IsSome(built) => ~Malformed(Unwrap(built), order)

\* C15, the state the code reaches: a pointer with a shift too large for the
\* field was built, and its evaluation or its read ran into the conversion
C15_MalformedEvaluated ==
    /\ IsSome(built)
    /\ Malformed(Unwrap(built), order)
    /\ IsSome(outcome)
    /\ Unwrap(outcome).op \in {"eval", "read"}


---------------------------------------------------------------------------
(* Claims about the dispatch of the lookup chip constraint.                *)

\* the digests of a row of a lookup trace
RowDigests(r) ==
    {r.looking[i] : i \in 1..Len(r.looking)} \cup {r.table[j].digest : j \in 1..Len(r.table)}

\* the register type of the lookup constraint a trace belongs to: its digests
\* are field elements (ElementRegister) or extension elements (CubicRegister)
KeyedBy(t) ==
    IF \A k \in 1..Len(t) : \A d \in RowDigests(t[k]) : Len(d) = NumLimbs
    THEN "ElementRegister"
    ELSE "CubicRegister"

\* the row as the lookup constraint of the given register type sees it
RowAs(register_type, r) == IF register_type = "ElementRegister" THEN EmbedRow(r) ELSE r

C16_Step ==
    lkRow' = lkRow + 1 =>
        /\ Unwrap(lkConstraint).variant \in {"Element", "CubicElement"}
        /\ KeyedBy(lkTrace) = "ElementRegister" => Unwrap(lkConstraint).variant = "Element"
        /\ KeyedBy(lkTrace) = "CubicRegister" => Unwrap(lkConstraint).variant = "CubicElement"
        /\ lkConstraint' = lkConstraint
        /\ \A b \in Betas :
            /\ lkSum'[b] = add_extension(lkSum[b],
                    LookupConstraint_eval(b, RowAs(KeyedBy(lkTrace), lkTrace[lkRow + 1])).term)
            /\ lkSide'[b] = (lkSide[b]
                    /\ LookupConstraint_eval(b, RowAs(KeyedBy(lkTrace), lkTrace[lkRow + 1])).side)

\* C16: the chip constraint is one of the two variants Element and
\* CubicElement, the conversion of a scalar-keyed lookup constraint gives the
\* Element variant and of an extension-keyed one the CubicElement variant,
\* and an evaluation of the chip constraint on a row is one evaluation of the
\* lookup constraint it carries: the running sum and the side constraints
\* move by the term of that constraint on that row, once, and the constraint
\* itself is left as it was.
C16_VariantDispatch == [][C16_Step]_vars

C16_Witness ==
    /\ IsSome(lkConstraint)
    /\ Unwrap(lkConstraint).variant = "CubicElement"
    /\ KeyedBy(lkTrace) = "CubicRegister"
    /\ lkRow >= 1
    /\ \E b \in Betas : lkSum[b] # CZERO


---------------------------------------------------------------------------
(* Byte array registers and their limbs.  A ByteArrayRegister<N> wraps a   *)
(* memory slice of N byte columns; to_le_limbs::<M> hands the slice to an  *)
(* array register of ByteArrayRegister<M> and from_limbs::<M> takes the    *)
(* slice of such an array back.                                            *)

\* the sizes of the register types U8Register .. U64Register
Sizes == {1, 2, 4, 8}

\* the limb sizes asked for
LimbSizes == {1, 2, 3, 4, 8}

\* the columns a register may start at
Starts == {0, 3}

\* the columns of the trace
ByteColumns == 0..10

\* the traces: the byte of a column depends on the column and the row, or on
\* the column only
ByteTraces ==
    {[r \in Rows |-> [c \in ByteColumns |-> (16 * c + r) % Base]],
     [r \in Rows |-> [c \in ByteColumns |-> 255 - c]]}

MemorySlice_Local(index, length) == [kind |-> "Local", index |-> index, length |-> length]

\* ByteArrayRegister::<N>::from_register_unsafe
ByteArrayRegister_from_register_unsafe(n, register) == [N |-> n, register |-> register]

\* ArrayRegister::<ByteArrayRegister<M>>::from_register_unsafe
ArrayRegister_from_register_unsafe(m, register) == [M |-> m, register |-> register]

\* the outcome of a call: a value, or the failure of an assertion
Ok(x) == [ok |-> TRUE, value |-> x]
Panic == [ok |-> FALSE, value |-> <<>>]

\* ByteArrayRegister::<N>::to_le_limbs::<M>
ByteArrayRegister_to_le_limbs(self, m) ==
    IF self.N % m # 0 THEN Panic
    ELSE Ok(ArrayRegister_from_register_unsafe(m, self.register))

\* from_limbs rebuilding the register from the first limb only
ByteArrayRegister_from_limbs_FirstLimb(n, register) ==
    IF n % register.M # 0 THEN Panic
    ELSE Ok(ByteArrayRegister_from_register_unsafe(n,
                MemorySlice_Local(register.register.index, register.M)))

\* ByteArrayRegister::<N>::from_limbs::<M>
ByteArrayRegister_from_limbs(n, register) ==
    IF n % register.M # 0 THEN Panic
    ELSE Ok(ByteArrayRegister_from_register_unsafe(n, register.register))

\* Register::value_from_slice on the window of a row: the bytes of the
\* columns of the register
ReadBytes(register, r) ==
    [i \in 1..register.N |-> byteTrace[r][register.register.index + i - 1]]

\* the equality constraint of two registers holds on a row
assert_equal(x, y, r) ==
    /\ x.register.length = y.register.length
    /\ \A i \in 1..x.register.length :
            byteTrace[r][x.register.index + i - 1] = byteTrace[r][y.register.index + i - 1]

InitLimbs ==
    /\ regA = None
    /\ regLimbs = None
    /\ regB = None
    /\ byteTrace \in ByteTraces
    /\ IdlePointer
    /\ IdleEncode
    /\ IdleLookup
    /\ IdleMemory
    /\ IdleAccumulate
    /\ IdleConstruct
    /\ IdleBlake
    /\ IdleMix

\* builder.alloc::<ByteArrayRegister<N>>()
AllocA ==
    /\ regA = None
    /\ \E n \in Sizes : \E s \in Starts :
            regA' = Some(ByteArrayRegister_from_register_unsafe(n, MemorySlice_Local(s, n)))
    /\ UNCHANGED <<regLimbs, regB, byteTrace, outsideLimbs>>

\* a.to_le_limbs::<M>()
ToLeLimbs ==
    /\ IsSome(regA)
    /\ regLimbs = None
    /\ \E m \in LimbSizes :
            regLimbs' = Some([M |-> m, result |-> ByteArrayRegister_to_le_limbs(Unwrap(regA), m)])
    /\ UNCHANGED <<regA, regB, byteTrace, outsideLimbs>>

\* ByteArrayRegister::<N>::from_limbs(&a_as_limbs), for a size N of the caller
FromLimbs ==
    /\ IsSome(regLimbs)
    /\ Unwrap(regLimbs).result.ok
    /\ regB = None
    /\ \E n \in Sizes :
            regB' = Some([N |-> n,
                          result |-> ByteArrayRegister_from_limbs(n, Unwrap(regLimbs).result.value)])
    /\ UNCHANGED <<regA, regLimbs, byteTrace, outsideLimbs>>

NextLimbs == AllocA \/ ToLeLimbs \/ FromLimbs

SpecLimbs == InitLimbs /\ [][NextLimbs]_vars

\* C17: for a byte array register a of N bytes and a limb size M dividing N,
\* to_le_limbs gives limbs over the memory slice of a, and from_limbs of
\* those limbs for the size N gives a register equal to a, the same memory
\* slice, so that the two hold the same bytes and their equality constraint
\* holds on every row of every trace; to_le_limbs fails exactly when M does
\* not divide N, and from_limbs exactly when M does not divide the size it is
\* asked for.
C17_LimbsRoundTrip ==
    /\ IsSome(regLimbs) =>
        /\ Unwrap(regLimbs).result.ok <=> Unwrap(regA).N % Unwrap(regLimbs).M = 0
        /\ Unwrap(regLimbs).result.ok =>
                /\ Unwrap(regLimbs).result.value.register = Unwrap(regA).register
                /\ Unwrap(regLimbs).result.value.M = Unwrap(regLimbs).M
    /\ IsSome(regB) =>
        /\ Unwrap(regB).result.ok <=> Unwrap(regB).N % Unwrap(regLimbs).M = 0
        /\ Unwrap(regB).N = Unwrap(regA).N =>
            /\ Unwrap(regB).result.ok
            /\ Unwrap(regB).result.value = Unwrap(regA)
            /\ \A r \in Rows :
                /\ ReadBytes(Unwrap(regB).result.value, r) = ReadBytes(Unwrap(regA), r)
                /\ assert_equal(Unwrap(regA), Unwrap(regB).result.value, r)

C17_Witness ==
    /\ IsSome(regA)
    /\ Unwrap(regA).N = 8
    /\ Unwrap(regA).register.index = 3
    /\ IsSome(regLimbs)
    /\ Unwrap(regLimbs).M = 4
    /\ IsSome(regB)
    /\ Unwrap(regB).N = 8
    /\ Unwrap(regB).result = Ok(Unwrap(regA))
    /\ byteTrace[0] # byteTrace[1]


---------------------------------------------------------------------------
(* The control registers of the BLAKE2B AIR, generated row by row.         *)

\* rows of the BLAKE2B trace: two compresses of 96 rows and a few more
BlakeRows == 200

\* builder.cycle(k): the end bit of a cycle of 2^k rows
cycle_end_bit(k, r) == IF r % (2 ^ k) = (2 ^ k) - 1 THEN ONE ELSE ZERO

\* loop_instr(n).get_iteration_reg(i)
get_iteration_reg(n, i, r) == IF r % n = i THEN ONE ELSE ZERO

\* BitRegister::not_expr
not_expr(x) == FSub(ONE, x)

const_96 == from_canonical_u8(96)

cycle_3_end_bit(r) == get_iteration_reg(3, 2, r)
cycle_4_end_bit(r) == cycle_end_bit(2, r)

\* the end bit of the cycle of 32 rows taken for the end bit of the compress
cycle_96_end_bit_Cycle32(r) == cycle_end_bit(5, r)

\* cycles_end_bits: cycle_96_end_bit = loop_3.get_iteration_reg(2) * cycle_32.end_bit
cycle_96_end_bit(r) == FMul(get_iteration_reg(3, 2, r), cycle_end_bit(5, r))

\* the transition of is_compress_initialize without the restart at the end
\* of a compress
is_compress_initialize_next_NoRestart(cur, r) ==
    FAdd(FMul(cycle_4_end_bit(r), ZERO), FMul(not_expr(cycle_4_end_bit(r)), cur))

\* the transition of is_compress_initialize
is_compress_initialize_next(cur, r) ==
    FAdd(FMul(cycle_96_end_bit(r), ONE),
         FMul(not_expr(cycle_96_end_bit(r)),
              FAdd(FMul(cycle_4_end_bit(r), ZERO),
                   FMul(not_expr(cycle_4_end_bit(r)), cur))))

\* compress_index = clk - compress_id * 96
compress_index == FSub(clk, FMul(compress_id, const_96))

\* is_compress_third_row = is_compress_initialize * cycle_3_end_bit
is_compress_third_row == FMul(is_compress_initialize, cycle_3_end_bit(blakeRow))

\* the end bits of the cycles of 8 and of 12 rows
cycle_8_end_bit(r) == cycle_end_bit(3, r)
cycle_12_end_bit(r) == FMul(get_iteration_reg(3, 2, r), cycle_4_end_bit(r))

\* builder.select on element registers: bit * x + (1 - bit) * y
select(bit, x, y) == FAdd(FMul(bit, x), FMul(not_expr(bit), y))

\* DUMMY_INDEX and DUMMY_TS: i32::MAX = 0x7FFFFFFF
dummy_index == from_canonical_u64(<<255, 255, 255, 127, 0, 0, 0, 0>>)
dummy_ts == from_canonical_u64(<<255, 255, 255, 127, 0, 0, 0, 0>>)

\* the number of a small field element
ToIndex(x) == x[1] + Base * x[2]

\* the compresses the rows of the trace belong to
BlakeCompresses == 0..((BlakeRows - 1) \div 96)

\* SIGMA_PERMUTATIONS: the message schedule of the 12 rounds
SIGMA ==
    <<<<0, 1, 2, 3, 4, 5, 6, 7, 8, 9, 10, 11, 12, 13, 14, 15>>,
      <<14, 10, 4, 8, 9, 15, 13, 6, 1, 12, 0, 2, 11, 7, 5, 3>>,
      <<11, 8, 12, 0, 5, 2, 15, 13, 10, 14, 3, 6, 7, 1, 9, 4>>,
      <<7, 9, 3, 1, 13, 12, 11, 14, 2, 6, 5, 10, 4, 0, 15, 8>>,
      <<9, 0, 5, 7, 2, 4, 10, 15, 14, 1, 11, 12, 6, 8, 3, 13>>,
      <<2, 12, 6, 10, 0, 11, 8, 3, 4, 13, 7, 5, 15, 14, 1, 9>>,
      <<12, 5, 1, 15, 14, 13, 4, 10, 0, 7, 6, 3, 9, 2, 8, 11>>,
      <<13, 11, 7, 14, 12, 1, 3, 9, 5, 0, 15, 4, 8, 6, 2, 10>>,
      <<6, 15, 14, 9, 11, 3, 0, 8, 12, 2, 13, 7, 1, 4, 10, 5>>,
      <<10, 2, 8, 4, 7, 6, 1, 5, 15, 11, 9, 14, 3, 12, 13, 0>>,
      <<0, 1, 2, 3, 4, 5, 6, 7, 8, 9, 10, 11, 12, 13, 14, 15>>,
      <<14, 10, 4, 8, 9, 15, 13, 6, 1, 12, 0, 2, 11, 7, 5, 3>>>>

\* MemoryArray::get_at of the permutations: the entry of SIGMA in the row and
\* the column the two registers hold
permutations_get_at(row_reg, col_reg) ==
    from_canonical_u8(SIGMA[ToIndex(row_reg) + 1][ToIndex(col_reg) + 1])

\* blake2b_compress: the indices m_idx_1 and m_idx_2 of the two message
\* words loaded on a row
m_idx_1_of(iteration, mix) ==
    permutations_get_at(iteration, FMul(mix, from_canonical_u8(2)))
m_idx_2_of(iteration, mix) ==
    permutations_get_at(iteration, FAdd(FMul(mix, from_canonical_u8(2)), ONE))

\* one more load of every key of a sequence
RECURSIVE AddLoads(_, _, _)
AddLoads(bag, keys, i) ==
    IF i > Len(keys) THEN bag
    ELSE IF keys[i] \in DOMAIN bag
         THEN AddLoads([bag EXCEPT ![keys[i]] = @ + 1], keys, i + 1)
         ELSE AddLoads(bag @@ (keys[i] :> 1), keys, i + 1)

\* the number of loads of a key
LoadsOf(bag, k) == IF k \in DOMAIN bag THEN bag[k] ELSE 0

\* blake2b_compress: the two loads from m on a row, at the timestamp
\* compress_id
MLoadsOfRow(id, iteration, mix) ==
    <<<<m_idx_1_of(iteration, mix), id>>, <<m_idx_2_of(iteration, mix), id>>>>

\* blake2b_compress_initialize: previous_compress_id, the timestamp of the
\* loads from h
previous_compress_id_of(id, first) == select(first, dummy_ts, FSub(id, ONE))

\* the loads from h on a row: h.get_at(init_idx_1) and h.get_at(init_idx_2)
\* of blake2b_compress_initialize and h.get(0) .. h.get(7) of
\* blake2b_compress, all at the timestamp previous_compress_id
HLoadsOfRow(id, index, initialize, first) ==
    <<<<select(initialize, index, dummy_index), previous_compress_id_of(id, first)>>,
      <<select(initialize, FAdd(index, from_canonical_u8(4)), dummy_index),
        previous_compress_id_of(id, first)>>>>
    \o [i \in 1..8 |-> <<from_canonical_u8(i - 1), previous_compress_id_of(id, first)>>]

\* compress_index for a clock and a compress_id
CompressIndexAt(c, id) == FSub(c, FMul(id, const_96))

\* at_last_hash_compress: the load of end_bit at compress_id
at_last_hash_compress_of(id) == end_bits[ToIndex(id)]

InitBlake ==
    /\ blakeRow = 0
    /\ clk = ZERO
    /\ compress_id = ZERO
    /\ is_compress_initialize = ONE
    /\ is_compress_first_row = ONE
    /\ mix_index = ZERO
    /\ compress_iteration = ZERO
    /\ at_first_compress = ONE
    /\ end_bits \in [BlakeCompresses -> {ZERO, ONE}]
    /\ m_loads = AddLoads(<<>>, MLoadsOfRow(ZERO, ZERO, ZERO), 1)
    /\ h_loads = AddLoads(<<>>, HLoadsOfRow(ZERO, ZERO, ONE, ONE), 1)
    /\ IdlePointer
    /\ IdleEncode
    /\ IdleLookup
    /\ IdleMemory
    /\ IdleAccumulate
    /\ IdleConstruct
    /\ IdleLimbs
    /\ IdleMix

\* the transition constraints give the registers of the next row
BlakeNextRow ==
    /\ blakeRow + 1 < BlakeRows
    /\ blakeRow' = blakeRow + 1
    /\ clk' = FAdd(clk, ONE)
    /\ compress_id' = FAdd(compress_id, cycle_96_end_bit(blakeRow))
    /\ is_compress_initialize' = is_compress_initialize_next(is_compress_initialize, blakeRow)
    /\ is_compress_first_row' = cycle_96_end_bit(blakeRow)
    /\ mix_index' = FAdd(FMul(not_expr(cycle_8_end_bit(blakeRow)), FAdd(mix_index, ONE)),
                         FMul(cycle_8_end_bit(blakeRow), ZERO))
    /\ compress_iteration' =
            FAdd(FMul(not_expr(cycle_12_end_bit(blakeRow)), FAdd(compress_iteration, ONE)),
                 FMul(cycle_12_end_bit(blakeRow), ZERO))
    /\ at_first_compress' =
            FAdd(FMul(not_expr(cycle_96_end_bit(blakeRow)), at_first_compress),
                 FMul(cycle_96_end_bit(blakeRow), at_last_hash_compress_of(compress_id)))
    /\ end_bits' = end_bits
    /\ m_loads' = AddLoads(m_loads, MLoadsOfRow(compress_id', compress_iteration', mix_index'), 1)
    /\ h_loads' = AddLoads(h_loads,
                        HLoadsOfRow(compress_id', CompressIndexAt(clk', compress_id'),
                                    is_compress_initialize', at_first_compress'), 1)
    /\ UNCHANGED outsideBlake

NextBlake == BlakeNextRow

SpecBlake == InitBlake /\ [][NextBlake]_vars

\* the field elements 0 .. n - 1
Below(n) == {from_canonical_u8(i) : i \in 0..(n - 1)}

\* C19: the end bit of the cycle of 96 rows is 1 exactly on the rows
\* congruent to 95 modulo 96; compress_id is 0 on the first row and on every
\* row the number of earlier rows on which that end bit was 1; and
\* compress_index = clk - 96 * compress_id is in 0..95 and is the position
\* of the row inside its compress.
C19_CompressCounters ==
    /\ cycle_96_end_bit(blakeRow) = (IF blakeRow % 96 = 95 THEN ONE ELSE ZERO)
    /\ blakeRow = 0 => compress_id = ZERO
    /\ compress_id = from_canonical_u8(
            Cardinality({q \in 0..(blakeRow - 1) : cycle_96_end_bit(q) = ONE}))
    /\ compress_index \in Below(96)
    /\ compress_index = from_canonical_u8(blakeRow % 96)

C19_Witness ==
    /\ blakeRow = 191
    /\ cycle_96_end_bit(blakeRow) = ONE
    /\ compress_id = ONE
    /\ compress_index = from_canonical_u8(95)

---------------------------------------------------------------------------
(* The BLAKE2B mix on 64-bit words, held as 8 little-endian bytes: the     *)
(* reference BLAKE2BPure::mix and the registers of BLAKE2BAir::blake2b_mix.*)

\* u64::wrapping_add, and the addition of two U64Register
wrapping_add(a, b) == SubSeq(Add8(a, b), 1, NumLimbs)

\* the xor of two bytes, bit by bit
RECURSIVE XorBits(_, _, _)
XorBits(x, y, n) ==
    IF n = 0 THEN 0
    ELSE ((x + y) % 2) + 2 * XorBits(x \div 2, y \div 2, n - 1)

\* the xor of two words
xor(a, b) == [i \in 1..NumLimbs |-> XorBits(a[i], b[i], 8)]

\* bit i (0 the lowest) of a word
Bit(w, i) == (w[(i \div 8) + 1] \div (2 ^ (i % 8))) % 2

\* the byte made of the bits i .. i + 7 - k of a word, taken around the word
RECURSIVE ByteFrom(_, _, _)
ByteFrom(w, i, k) ==
    IF k = 8 THEN 0
    ELSE Bit(w, (i + k) % 64) + 2 * ByteFrom(w, i, k + 1)

\* u64::rotate_right
rotate_right(w, n) == [j \in 1..NumLimbs |-> ByteFrom(w, 8 * (j - 1) + n, 0)]

\* BLAKE2BPure::mix, line by line; the result is (v[a], v[b], v[c], v[d])
PureMix4(va, vb, vc, vd, y) ==
    <<va, rotate_right(xor(vb, vc), 63), vc, vd>>
PureMix3(va, vb, vc, vd, y) ==
    PureMix4(va, vb, wrapping_add(vc, rotate_right(xor(vd, va), 16)),
             rotate_right(xor(vd, va), 16), y)
PureMix2(va, vb, vc, vd, y) ==
    PureMix3(wrapping_add(wrapping_add(va, rotate_right(xor(vb, vc), 24)), y),
             rotate_right(xor(vb, vc), 24), vc, vd, y)
PureMix1(va, vb, vc, vd, y) ==
    PureMix2(va, vb, wrapping_add(vc, rotate_right(xor(vd, va), 32)),
             rotate_right(xor(vd, va), 32), y)
BLAKE2BPure_mix(va, vb, vc, vd, x, y) ==
    PureMix1(wrapping_add(wrapping_add(va, vb), x), vb, vc, vd, y)

\* BLAKE2BAir::blake2b_mix, register by register: va_i, vb_i, vc_i, vd_i are
\* v_a_inter .. v_d_inter; the result is (v_a_inter, v_b_inter, v_c_inter,
\* v_d_inter)
AirMix5(va_i, vb_i, vc_i, vd_i) ==
    <<va_i, rotate_right(xor(vb_i, vc_i), 63), vc_i, vd_i>>
AirMix4(va_i, vb_i, vc_i, vd_i) ==
    AirMix5(va_i, vb_i, wrapping_add(vc_i, rotate_right(xor(vd_i, va_i), 16)),
            rotate_right(xor(vd_i, va_i), 16))
AirMix3(va_i, vb_i, vc_i, vd_i, y) ==
    AirMix4(wrapping_add(wrapping_add(va_i, vb_i), y), vb_i, vc_i, vd_i)
AirMix2(va_i, vb, vc_i, vd_i, y) ==
    AirMix3(va_i, rotate_right(xor(vb, vc_i), 24), vc_i, vd_i, y)
AirMix1(va_i, vb, vc, vd_i, y) ==
    AirMix2(va_i, vb, wrapping_add(vc, vd_i), vd_i, y)
BLAKE2BAir_blake2b_mix(va, vb, vc, vd, x, y) ==
    AirMix1(wrapping_add(wrapping_add(va, vb), x), vb, vc,
            rotate_right(xor(vd, va), 32), y)

\* the words a mix is tried on: 0, 2^64 - 1 and 0x0123456789ABCDEF
MixWords ==
    {<<0, 0, 0, 0, 0, 0, 0, 0>>,
     <<255, 255, 255, 255, 255, 255, 255, 255>>,
     <<239, 205, 171, 137, 103, 69, 35, 1>>}

InitMix ==
    /\ mixArgs \in [1..6 -> MixWords]
    /\ mixAir = None
    /\ mixPure = None
    /\ IdlePointer
    /\ IdleEncode
    /\ IdleLookup
    /\ IdleMemory
    /\ IdleAccumulate
    /\ IdleConstruct
    /\ IdleLimbs
    /\ IdleBlake

\* the registers of the AIR mix for the six words
AirMix ==
    /\ mixAir = None
    /\ mixAir' = Some(BLAKE2BAir_blake2b_mix(mixArgs[1], mixArgs[2], mixArgs[3],
                                             mixArgs[4], mixArgs[5], mixArgs[6]))
    /\ UNCHANGED <<mixArgs, mixPure, outsideMix>>

\* the reference mix for the six words
PureMix ==
    /\ mixPure = None
    /\ mixPure' = Some(BLAKE2BPure_mix(mixArgs[1], mixArgs[2], mixArgs[3],
                                       mixArgs[4], mixArgs[5], mixArgs[6]))
    /\ UNCHANGED <<mixArgs, mixAir, outsideMix>>

NextMix == AirMix \/ PureMix

SpecMix == InitMix /\ [][NextMix]_vars

\* C23 as stated: for all inputs the four registers the AIR mix returns are
\* the values the reference mix leaves in v[a], v[b], v[c], v[d].
C23_Original ==
    (IsSome(mixAir) /\ IsSome(mixPure)) => Unwrap(mixAir) = Unwrap(mixPure)

\* C23, the state the code reaches: for v_a = 0, v_b = 0, x = 2^64 - 1 the
\* first xor of the AIR takes the v_a it was given where the reference takes
\* the v[a] it has just updated, and the results differ
C23_MixesDiffer ==
    /\ IsSome(mixAir)
    /\ IsSome(mixPure)
    /\ mixArgs[1] = <<0, 0, 0, 0, 0, 0, 0, 0>>
    /\ mixArgs[2] = <<0, 0, 0, 0, 0, 0, 0, 0>>
    /\ mixArgs[5] = <<255, 255, 255, 255, 255, 255, 255, 255>>
    /\ Unwrap(mixAir) # Unwrap(mixPure)


---------------------------------------------------------------------------
(* The memories of the BLAKE2B AIR: what blake2b_memory stores, and what   *)
(* the rows load.                                                          *)

\* const_24 and const_184, the multiplicities of the stores of a message
\* word and of the dummy entry of h
const_24 == 24
const_184 == 184

\* blake2b_memory: the key (index, timestamp) of the store of word j of
\* chunk c of the message; the counter that gives the timestamp goes up by
\* one with every word stored
MStoreKey(c, j) == <<from_canonical_u8(j), from_canonical_u8(16 * c + j)>>

\* the key of the store of the dummy entry of h
HDummyKey == <<dummy_index, dummy_ts>>

\* the position of the row inside its compress, and the compress of the row
PositionInCompress == blakeRow % 96
CompressOfRow == blakeRow \div 96

\* the loads from m at the index j with the timestamp of the compress c
WordLoads(c, j) == LoadsOf(m_loads, <<from_canonical_u8(j), from_canonical_u8(c)>>)

RECURSIVE SumWordLoads(_, _)
SumWordLoads(c, j) == IF j < 0 THEN 0 ELSE WordLoads(c, j) + SumWordLoads(c, j - 1)

\* C21 as stated: when the 96 rows of a compress are done, each of its 16
\* message words has been loaded 24 times, the multiplicity of its store,
\* and these loads are the loads of the key the word was stored under.
C21_Original ==
    PositionInCompress = 95 =>
        \A j \in 0..15 :
            /\ WordLoads(CompressOfRow, j) = const_24
            /\ LoadsOf(m_loads, MStoreKey(CompressOfRow, j)) = const_24

\* C21, the state the code reaches: at the end of the first compress the
\* rows have issued 192 loads from m, two a row, where 16 stores of
\* multiplicity 24 ask for 384, and but for word 0 no load has the timestamp
\* of the store of its word
C21_LoadsShortOfStores ==
    /\ blakeRow = 95
    /\ SumWordLoads(0, 15) = 192
    /\ \E j \in 0..15 : WordLoads(0, j) # const_24
    /\ \A j \in 1..15 : LoadsOf(m_loads, MStoreKey(0, j)) = 0

\* C22 as stated: the multiplicity of the store of the dummy entry of h is
\* the number of loads that hit it; when a compress is done these are 184
\* loads for every compress so far, and every load at dummy_index is issued
\* at the timestamp dummy_ts.
C22_Original ==
    /\ \A k \in DOMAIN h_loads : k[1] = dummy_index => k[2] = dummy_ts
    /\ PositionInCompress = 95 =>
        /\ LoadsOf(h_loads, HDummyKey) = 184 * (CompressOfRow + 1)
        /\ LoadsOf(h_loads, HDummyKey) = const_184

\* C22, the state the code reaches: two compresses of one message are done,
\* the dummy entry was loaded 184 times at dummy_ts and 184 times at the
\* timestamp compress_id - 1 = 0, under which nothing is stored
C22_DummyLoadsOffTheStore ==
    /\ blakeRow = 191
    /\ end_bits[0] = ZERO
    /\ LoadsOf(h_loads, HDummyKey) = 184
    /\ LoadsOf(h_loads, <<dummy_index, ZERO>>) = 184

\* COMPRESS_IV[4 .. 7], the initial values of v[12] .. v[15]
COMPRESS_IV_12_15 ==
    <<<<209, 130, 230, 173, 127, 82, 14, 81>>,
      <<31, 108, 62, 43, 140, 104, 5, 155>>,
      <<107, 189, 65, 251, 171, 217, 131, 31>>,
      <<121, 33, 126, 19, 25, 205, 224, 91>>>>

const_ffffffffffffffff == <<255, 255, 255, 255, 255, 255, 255, 255>>

\* t_values: the byte counter of a compress, 128 bytes a chunk
t_values(c) == <<(128 * (c + 1)) % Base, (128 * (c + 1)) \div Base, 0, 0, 0, 0, 0, 0>>

\* builder.select on U64 registers
select_u64(bit, x, y) == IF bit = ONE THEN x ELSE y

\* blake2b_compress_initialize: v4_value on a row that initialises, xored
\* with t on the first row and then with 0xFFFFFFFFFFFFFFFF on the third row
v4_third(third, v4) == select_u64(third, xor(v4, const_ffffffffffffffff), v4)
v4_value_of(index, first, third, t) ==
    v4_third(third,
             select_u64(first, xor(COMPRESS_IV_12_15[ToIndex(index) + 1], t),
                        COMPRESS_IV_12_15[ToIndex(index) + 1]))

\* BLAKE2BPure::compress: v[12 + i] when the work vector is set up
PureWorkVector(i, bytes_compressed, last_chunk) ==
    CASE i = 0 -> xor(COMPRESS_IV_12_15[1], bytes_compressed)
      [] i = 2 -> IF last_chunk THEN xor(COMPRESS_IV_12_15[3], const_ffffffffffffffff)
                  ELSE COMPRESS_IV_12_15[3]
      [] OTHER -> COMPRESS_IV_12_15[i + 1]

\* C24 as stated: on the first four rows of a compress the fourth value the
\* AIR hands to the mix is v[12 + compress_index] of the reference: xored
\* with t on the first row, and on the third row xored with
\* 0xFFFFFFFFFFFFFFFF only when the compress is the last of its message.
C24_Original ==
    is_compress_initialize = ONE =>
        v4_value_of(compress_index, is_compress_first_row, is_compress_third_row,
                    t_values(ToIndex(compress_id)))
            = PureWorkVector(ToIndex(compress_index), t_values(ToIndex(compress_id)),
                             end_bits[ToIndex(compress_id)] = ONE)

\* C24, the state the code reaches: on the third row of a compress that is
\* not the last of its message v[14] is inverted all the same
C24_InvertedInNonFinalCompress ==
    /\ blakeRow = 2
    /\ end_bits[0] = ZERO
    /\ is_compress_third_row = ONE
    /\ v4_value_of(compress_index, is_compress_first_row, is_compress_third_row, t_values(0))
            = xor(COMPRESS_IV_12_15[3], const_ffffffffffffffff)

\* C25 as stated: on the row at position r of a compress the two message
\* words loaded are those at SIGMA[r div 8][2 * (r mod 8)] and at
\* SIGMA[r div 8][2 * (r mod 8) + 1]; the register that picks the row of the
\* permutation is r div 8, and mix_index is r mod 8.
C25_Original ==
    /\ mix_index = from_canonical_u8(PositionInCompress % 8)
    /\ compress_iteration = from_canonical_u8(PositionInCompress \div 8)
    /\ m_idx_1_of(compress_iteration, mix_index)
            = from_canonical_u8(SIGMA[(PositionInCompress \div 8) + 1][2 * (PositionInCompress % 8) + 1])
    /\ m_idx_2_of(compress_iteration, mix_index)
            = from_canonical_u8(SIGMA[(PositionInCompress \div 8) + 1][2 * (PositionInCompress % 8) + 2])

\* C25, the state the code reaches: on the second row of a compress the
\* register that picks the row of the permutation is 1 already, and the
\* words loaded are those of SIGMA[1]
C25_IterationAdvancesEveryRow ==
    /\ blakeRow = 1
    /\ mix_index = ONE
    /\ compress_iteration = ONE
    /\ m_idx_1_of(compress_iteration, mix_index) = from_canonical_u8(SIGMA[2][3])
    /\ m_idx_1_of(compress_iteration, mix_index) # from_canonical_u8(SIGMA[1][3])

====
